---- MODULE Spec2Model ----
(***************************************************************************)
(* The paper-trading position lifecycle of TradingEngine                   *)
(* (src/unnamed/part_001, backend/src/core/trading_engine.js) with the     *)
(* trades table of DatabaseManager (src/backend/src/utils/database.js)     *)
(* and the entry point InfluencerTracker uses (src/unnamed/part_004).      *)
(*                                                                         *)
(* JavaScript runs one callback at a time: a frame (a startTrading call,   *)
(* a setInterval callback, an influencer entry) runs without interruption  *)
(* from one network await to the next.  Every action below is one such     *)
(* run: it starts where an axios call returns and ends at the next axios   *)
(* call (or at the end of the frame).  Awaits of functions that resolve    *)
(* without I/O (getAccountBalance in paper mode) continue in the same      *)
(* microtask drain and do not end an action.                               *)
(*                                                                         *)
(* Numbers.  JavaScript doubles are modelled by exact integers:            *)
(*   - a price p stands for p/100 (79 is 0.79, 100 is 1.0, 200 is 2.0);    *)
(*   - SOL amounts are counted in units of 1/4,740,000 SOL, so that        *)
(*     size / price is exact for every size and price of the model;        *)
(*   - token amounts are counted in SOL units per price unit: the row's    *)
(*     amount times a price is a SOL amount again;                         *)
(*   - time is Date.now() in milliseconds.                                 *)
(* Every price of the model gives a gain whose double image lies on the    *)
(* same side of each threshold as the exact value.                         *)
(*                                                                         *)
(* Specifications.                                                         *)
(*   Spec           two overlapping frames, one token to trade             *)
(*   SpecMonitor    one frame at a time, two tokens, every exit price and  *)
(*                  every hold-time threshold                              *)
(*   SpecExposure   one frame over a table of eleven tokens that the       *)
(*                  scanner and the social monitor write to                *)
(*   SpecLifecycle  Spec with stopTrading                                  *)
(*   SpecFunds      two overlapping frames on a balance of 0.15 SOL        *)
(*                                                                         *)
(* The token scanners use the same step: a scan, an onLogs handler or an   *)
(* aggregation pass is a frame of scanFrames between two awaits.           *)
(*   SpecScanner    EnhancedMultiSourceScanner with Raydium and            *)
(*                  DexScreener enabled, started once                      *)
(*   SpecRateLimit  checkRateLimit and RateLimiter.checkLimit called up    *)
(*                  to MaxCalls times at four instants                     *)
(*   SpecBurst      the ten requests of testRateLimiting put to the        *)
(*                  reddit limiter                                         *)
(*   SpecThrottle   the DexScreener scanner alone with its rate limit at   *)
(*                  the maximum                                            *)
(*   SpecDedup      MultiSourceTokenScanner with the Raydium and the       *)
(*                  DexScreener scanner reporting two addresses            *)
(*   SpecMerge      EnhancedTokenScanner.scanAll over three fetchers       *)
(*   SpecPurge      EnhancedMultiSourceScanner started again with about    *)
(*                  1000 processed addresses                               *)
(*   SpecPumpFun    the stand-alone PumpFunScanner                         *)
(*   SpecIngest     the Bitquery and the DexScreener scan over batches of  *)
(*                  well-formed and malformed records                      *)
(*   SpecScore      analyzeAndStoreToken of the enhanced and of the        *)
(*                  multi-source scanner, a token scored at two ages       *)
(*   SpecSocket     the WebSocket PumpFunScanner: start, stop, the events  *)
(*                  of its sockets and its reconnect timers                *)
(*   SpecOverlap    SpecScanner with two aggregations in flight            *)
(*   SpecQuiesce    the aggregation loop over tokens Maps of 45 and of     *)
(*                  1001 addresses with the sources silent, under weak     *)
(*                  fairness of the interval and of db.addToken            *)
(***************************************************************************)
EXTENDS Integers, Sequences, FiniteSets, Bags, TLC

VARIABLES
    paperBalance,    \* this.paperBalance
    paperPositions,  \* this.paperPositions: the Map's entries in insertion order
    trades,          \* rows of the trades table, in insertion order
    tokens,          \* rows of the tokens table, oldest discovery first
    now,             \* Date.now()
    isTrading,       \* this.isTrading
    liveTimers,      \* intervals created by setInterval and not cleared
    timerHandle,     \* TRUE when this.tradingTimer names a live interval
    frames,          \* the frames in flight, each at an await
    isScanning,      \* the scanner's this.isScanning
    scanTimer,       \* TRUE when this.scanTimer names a live interval
    scanners,        \* this.scanners: the scanner object of each source
    processedTokens, \* this.processedTokens: the Set's elements in insertion order
    rateLimits,      \* this.rateLimits: current and reset of each source
    emitted,         \* the 'token' events emitted so far
    scanFrames,      \* the scanner's frames in flight, each at an await
    logSubscriptions,\* connection.onLogs subscriptions that are live
    requests,        \* RateLimiter's this.requests.get(api): the timestamps
    calls            \* what the rate limiter under study has returned to its
                     \* caller: the api asked for, and each call's instant and result

\* the variables only the trading engine writes
engineVars == << paperBalance, paperPositions, trades, isTrading, liveTimers,
                timerHandle, frames >>

\* the variables only the scanners and the rate limiters write
scannerVars == << isScanning, scanTimer, scanners, processedTokens, rateLimits,
                 emitted, scanFrames, logSubscriptions, requests, calls >>

vars == << paperBalance, paperPositions, trades, tokens, now, isTrading,
           liveTimers, timerHandle, frames, isScanning, scanTimer, scanners,
           processedTokens, rateLimits, emitted, scanFrames, logSubscriptions,
           requests, calls >>

----------------------------------------------------------------------------
(* Bounds of the model *)

MaxBuys == 2
MaxTimers == 1
\* buys of the run that fills the Map
ExposureBuys == 11
\* sells of the run that fills the Map
ExposureSells == 1
\* SpecScanner: MaxChecks scans of a source in one window, MaxFrames onLogs
\* handlers and as many aggregations in flight
MaxChecks == 2
MaxFrames == 1
\* SpecRateLimit: MaxCalls calls of a rate limiter
MaxCalls == 62
\* scans of the stand-alone PumpFunScanner
MaxScans == 3
\* calls of analyzeAndStoreToken in the scoring specification
MaxScores == 2

(* Program constants *)

\* MAX_POSITION_SIZE, 0.1 SOL
maxPositionSize == 474000
\* PAPER_BALANCE, here 0.2 SOL
initialPaperBalance == 948000
\* PAPER_BALANCE of 0.15 SOL: one entry is covered and a second one is not
scarcePaperBalance == 711000
\* PAPER_BALANCE left to its default, 10.0 SOL
defaultPaperBalance == 47400000
\* MAX_DAILY_LOSS 0.05, as a percentage
maxDailyLossPct == 5
\* MIN_LIQUIDITY of the engine's liquidity factor
minLiquidity == 5000
\* MIN_LIQUIDITY default of getViableTokens
viableMinLiquidity == 500
maxPositions == 10
viableLimit == 10
checkInterval == 15000
ThirtyMinutes == 1800000
TwentyFourHours == 86400000

\* What getCurrentPrice returns when both lookups fail (null, 0 or NaN: all falsy)
NoPrice == 0
Prices == {79, 100, 150, 200}
PriceResults == Prices \cup {NoPrice}

\* NULL of executed_at
NoTime == 0 - 1
\* analysis.suggestedSize when the caller passes none
Undefined == 0 - 1

Procs == {1, 2}
\* The instants the clock is read at: the start, each hold-time threshold
\* and one timer period past each.
Instants == {0, ThirtyMinutes, ThirtyMinutes + checkInterval,
             TwentyFourHours, TwentyFourHours + checkInterval}

----------------------------------------------------------------------------
(* The tokens table *)

\* The rows of the model, as the scanners and the social monitor leave them.
\* T12 is a row as MultiSourceTokenScanner stores it: socialScore 0.
TokenRow(a) ==
    CASE a = "A" -> [address |-> a, social_score |-> 20, risk_score |-> 30,
                     liquidity |-> 6000]
      [] a = "B" -> [address |-> a, social_score |-> 10, risk_score |-> 30,
                     liquidity |-> 6000]
      [] a = "C" -> [address |-> a, social_score |-> 30, risk_score |-> 85,
                     liquidity |-> 6000]
      [] a \in {"T11", "T12"} ->
                    [address |-> a, social_score |-> 0, risk_score |-> 30,
                     liquidity |-> 6000]
      [] OTHER   -> [address |-> a, social_score |-> 20, risk_score |-> 30,
                     liquidity |-> 6000]

CoreTokens == << TokenRow("C"), TokenRow("B"), TokenRow("A") >>

RECURSIVE WithoutAddress(_, _)
\* tbl without its row for the address a
WithoutAddress(tbl, a) ==
    IF tbl = << >> THEN << >>
    ELSE IF Head(tbl).address = a THEN WithoutAddress(Tail(tbl), a)
         ELSE << Head(tbl) >> \o WithoutAddress(Tail(tbl), a)

\* INSERT OR REPLACE: the old row goes, the new row is the latest discovery
addToken(tbl, row) == Append(WithoutAddress(tbl, row.address), row)

\* UPDATE tokens SET social_score = ? WHERE address = ?
updateTokenSocialScore(tbl, a, score) ==
    [i \in 1..Len(tbl) |->
        IF tbl[i].address = a THEN [tbl[i] EXCEPT !.social_score = score]
        ELSE tbl[i]]

RECURSIVE InsertRanked(_, _)
\* the row into s, which is ordered by social_score DESC, discovered_at DESC;
\* the row is older than every row of s
InsertRanked(s, row) ==
    IF s = << >> THEN << row >>
    ELSE IF Head(s).social_score >= row.social_score
         THEN << Head(s) >> \o InsertRanked(Tail(s), row)
         ELSE << row >> \o s

RECURSIVE Ranked(_)
\* the rows of tbl that pass the WHERE clause, in the ORDER BY order
Ranked(tbl) ==
    IF tbl = << >> THEN << >>
    ELSE LET row == Head(tbl)
             rest == Ranked(Tail(tbl))
         IN  IF row.risk_score < 80 /\ row.liquidity > viableMinLiquidity
             THEN InsertRanked(rest, row)
             ELSE rest

getViableTokens(tbl, limit) ==
    LET r == Ranked(tbl)
    IN  IF Len(r) <= limit THEN r ELSE SubSeq(r, 1, limit)

----------------------------------------------------------------------------
(* The trades table *)

recordTrade(tbl, tokenAddress, side, amount, price, solAmount) ==
    Append(tbl, [tokenAddress |-> tokenAddress, side |-> side, amount |-> amount,
                 price |-> price, sol_amount |-> solAmount,
                 status |-> "completed", profit_loss |-> 0,
                 executed_at |-> NoTime])

\* UPDATE ... WHERE signature = ?: the signature is the one of row i
updateTradeStatus(tbl, i, status, profitLoss, at) ==
    [tbl EXCEPT ![i] = [@ EXCEPT !.status = status, !.profit_loss = profitLoss,
                                 !.executed_at = at]]

Day(t) == t \div TwentyFourHours

RECURSIVE SumPnL(_, _)
SumPnL(tbl, today) ==
    IF tbl = << >> THEN 0
    ELSE (IF Head(tbl).executed_at # NoTime
             /\ Day(Head(tbl).executed_at) = today
             /\ Head(tbl).status = "completed"
          THEN Head(tbl).profit_loss ELSE 0) + SumPnL(Tail(tbl), today)

getDailyPnL(tbl, at) == SumPnL(tbl, Day(at))

----------------------------------------------------------------------------
(* this.paperPositions: a Map, kept as its entries in insertion order.  An  *)
(* iterator is the number of entries it has passed; deleting an entry it    *)
(* has passed moves it back by one, as the Map's own iterators do.          *)

RECURSIVE IndexOf(_, _)
\* the place of a's entry in m, 0 when there is none
IndexOf(m, a) ==
    IF m = << >> THEN 0
    ELSE IF m[Len(m)].address = a THEN Len(m)
         ELSE IndexOf(SubSeq(m, 1, Len(m) - 1), a)

MapHas(m, a) == IndexOf(m, a) # 0
MapGet(m, a) == m[IndexOf(m, a)]

\* Map.set: an existing key keeps its place and takes the new value
MapSet(m, a, v) ==
    IF MapHas(m, a) THEN [m EXCEPT ![IndexOf(m, a)] = v] ELSE Append(m, v)

\* a delete that leaves the entry in the Map
MapDeleteForgotten(m, a) == m

MapDelete(m, a) ==
    LET i == IndexOf(m, a)
    IN  IF i = 0 THEN m ELSE SubSeq(m, 1, i - 1) \o SubSeq(m, i + 1, Len(m))

hasPosition(m, a) == MapHas(m, a)
getActivePositionCount(m) == Len(m)
OpenAddresses == {paperPositions[i].address : i \in 1..Len(paperPositions)}

----------------------------------------------------------------------------
(* The pure parts of the engine *)

\* Math.abs
Abs(x) == IF x < 0 THEN 0 - x ELSE x

\* Math.abs(dailyPnL) / accountBalance > maxDailyLoss.  A zero balance
\* divides to Infinity (a breach) or, for 0/0, to NaN (no breach).
DailyLossReached(dailyPnL, accountBalance) ==
    IF accountBalance = 0 THEN dailyPnL # 0
    ELSE Abs(dailyPnL) * 100 > maxDailyLossPct * accountBalance

\* a size that scales from nothing to the whole of maxPositionSize
calculatePositionSizeUnscaled(confidence) ==
    (maxPositionSize * confidence) \div 100

\* baseSize * (0.5 + 0.5 * confidence / 100)
calculatePositionSize(confidence) ==
    (maxPositionSize * (100 + confidence)) \div 200

Count(b) == IF b THEN 1 ELSE 0

\* the analysis of a token (the row getViableTokens returned), given what
\* checkMomentum returned and the Map as it is once checkMomentum has returned
analyzeOpportunity(token, momentum, m) ==
    LET passedFactors ==
            Count(token.social_score > 15)
          + Count(token.risk_score < 60)
          + Count(token.liquidity >= minLiquidity)
          + Count(momentum)
          + Count(getActivePositionCount(m) < maxPositions)
        confidence == (passedFactors * 100) \div 5
    IN  [shouldTrade |-> passedFactors >= 4,
         confidence |-> confidence,
         suggestedSize |-> calculatePositionSize(confidence)]

\* pnlPercent >= k, pnlPercent <= k, pnlPercent < k for
\* pnlPercent = (currentPrice - entryPrice) / entryPrice * 100
PnlGE(entryPrice, currentPrice, k) == (currentPrice - entryPrice) * 100 >= k * entryPrice
PnlLE(entryPrice, currentPrice, k) == (currentPrice - entryPrice) * 100 <= k * entryPrice
PnlLT(entryPrice, currentPrice, k) == (currentPrice - entryPrice) * 100 < k * entryPrice

\* the chain with its first two tests in the other order
ExitReasonSwapped(entryPrice, currentPrice, holdTime) ==
    IF PnlGE(entryPrice, currentPrice, 50) /\ holdTime > ThirtyMinutes
    THEN "take_profit_50"
    ELSE IF PnlGE(entryPrice, currentPrice, 100) THEN "take_profit_100"
    ELSE IF PnlLE(entryPrice, currentPrice, 0 - 20) THEN "stop_loss"
    ELSE IF holdTime > TwentyFourHours /\ PnlLT(entryPrice, currentPrice, 10)
         THEN "time_exit_24h"
    ELSE ""

\* the chain with a stop-loss at -25%
ExitReasonLateStop(entryPrice, currentPrice, holdTime) ==
    IF PnlGE(entryPrice, currentPrice, 100) THEN "take_profit_100"
    ELSE IF PnlGE(entryPrice, currentPrice, 50) /\ holdTime > ThirtyMinutes
         THEN "take_profit_50"
    ELSE IF PnlLE(entryPrice, currentPrice, 0 - 25) THEN "stop_loss"
    ELSE IF holdTime > TwentyFourHours /\ PnlLT(entryPrice, currentPrice, 10)
         THEN "time_exit_24h"
    ELSE ""

\* the if / else-if chain of checkExitConditions; "" is shouldExit = false
ExitReason(entryPrice, currentPrice, holdTime) ==
    IF PnlGE(entryPrice, currentPrice, 100) THEN "take_profit_100"
    ELSE IF PnlGE(entryPrice, currentPrice, 50) /\ holdTime > ThirtyMinutes
         THEN "take_profit_50"
    ELSE IF PnlLE(entryPrice, currentPrice, 0 - 20) THEN "stop_loss"
    ELSE IF holdTime > TwentyFourHours /\ PnlLT(entryPrice, currentPrice, 10)
         THEN "time_exit_24h"
    ELSE ""

----------------------------------------------------------------------------
(* Frames *)

NoPos == [address |-> "", amount |-> 0, entryPrice |-> 0, entrySize |-> 0,
          entryTime |-> 0]

\* kind: "start" (startTrading), "timer" (the setInterval callback),
\*       "influencer" (executeInfluencerTrade)
\* pc:   the await the frame is at
\*   "momentum"    checkMomentum, for Head(opps)
\*   "buy_price"   getCurrentPrice of executePaperTrade(.., 'buy'), for addr
\*   "exit_price"  getCurrentPrice of checkExitConditions, for addr
\*   "sell_price"  getCurrentPrice of executePaperTrade(.., 'sell'), for addr
Idle == [pc |-> "idle", kind |-> "", opps |-> << >>, addr |-> "", size |-> 0,
         iter |-> 0, position |-> NoPos, currentPrice |-> 0, holdTime |-> 0,
         reason |-> ""]

RECURSIVE SkipHeld(_, _)
\* for (const token of opportunities) { if (this.hasPosition(..)) continue; ..
SkipHeld(opps, m) ==
    IF opps = << >> THEN << >>
    ELSE IF hasPosition(m, Head(opps).address) THEN SkipHeld(Tail(opps), m)
         ELSE opps

\* the frame f once its checkExitConditions call has returned: the Map's
\* iterator yields the next entry and the frame awaits its price, or the
\* callback ends
NextEntry(f, m, iter) ==
    IF iter < Len(m)
    THEN [Idle EXCEPT !.pc = "exit_price", !.kind = f.kind, !.iter = iter + 1,
                      !.addr = m[iter + 1].address, !.position = m[iter + 1]]
    ELSE Idle

\* the frame f with opps left to look at in checkTradingOpportunities: it
\* awaits checkMomentum for the first token without a position; with none
\* left the callback goes on to monitorPositions and the other frames end
AfterOpportunity(f, opps, m) ==
    LET rest == SkipHeld(opps, m)
    IN  IF rest # << >>
        THEN [Idle EXCEPT !.pc = "momentum", !.kind = f.kind, !.opps = rest]
        ELSE IF f.kind = "timer" THEN NextEntry(f, m, 0)
        ELSE Idle

\* setInterval at the end of startTrading
ArmsTimer(f, g) == f.kind = "start" /\ g.pc = "idle"

\* checkTradingOpportunities up to its first network await, run by a frame
\* of the given kind
checkTradingOpportunities(kind) ==
    LET dailyPnL == getDailyPnL(trades, now)
        accountBalance == paperBalance
        opportunities ==
            IF DailyLossReached(dailyPnL, accountBalance) THEN << >>
            ELSE getViableTokens(tokens, viableLimit)
    IN  AfterOpportunity([Idle EXCEPT !.kind = kind], opportunities, paperPositions)

\* executeTrade: positionSize.toFixed(3) throws a TypeError when the analysis
\* carries no suggestedSize
executeTradeThrows(analysis) == analysis.suggestedSize = Undefined

\* the analysis executeInfluencerTrade hands to executeTrade
InfluencerAnalysis(signalStrength) ==
    [shouldTrade |-> TRUE, confidence |-> signalStrength, suggestedSize |-> Undefined]

BuyCount == Cardinality({i \in 1..Len(trades) : trades[i].side = "buy"})

\* if (!currentPrice) of executePaperTrade
TradePriceMissing(currentPrice) == currentPrice = NoPrice

\* checkExitConditions without its test of the price
ExitPriceMissingIgnored(currentPrice) == FALSE

\* if (!currentPrice) of checkExitConditions
ExitPriceMissing(currentPrice) == currentPrice = NoPrice

\* a test that refuses the entry only when nothing is left
InsufficientBalanceAtZero(balance, size) == balance <= 0

\* if (this.paperBalance < size)
InsufficientBalance(balance, size) == balance < size

\* the exit value taken for the profit
ProfitLossAsExitValue(exitValue, entrySize) == exitValue

\* const pnl = exitValue - position.entrySize
ProfitLoss(exitValue, entrySize) == exitValue - entrySize

\* a sell that credits the entry size instead of the exit value
BalanceAfterSellRefund(balance, position, exitValue) == balance + position.entrySize

\* this.paperBalance += exitValue
BalanceAfterSell(balance, position, exitValue) == balance + exitValue

\* the buy with the balance debited before the trade is recorded
PaperBuyDebitFirst(a, size, currentPrice, stored) ==
    IF TradePriceMissing(currentPrice) THEN
        [ok |-> FALSE, balance |-> paperBalance, positions |-> paperPositions,
         trades |-> trades]
    ELSE IF InsufficientBalance(paperBalance, size) THEN
        [ok |-> FALSE, balance |-> paperBalance, positions |-> paperPositions,
         trades |-> trades]
    ELSE IF ~stored THEN
        [ok |-> FALSE, balance |-> paperBalance - size, positions |-> paperPositions,
         trades |-> trades]
    ELSE
        LET tokenAmount == size \div currentPrice
        IN  [ok |-> TRUE,
             balance |-> paperBalance - size,
             positions |-> MapSet(paperPositions, a,
                                  [address |-> a, amount |-> tokenAmount,
                                   entryPrice |-> currentPrice, entrySize |-> size,
                                   entryTime |-> now]),
             trades |-> recordTrade(trades, a, "buy", tokenAmount, currentPrice, size)]

\* executePaperTrade(token, size, 'buy') from the return of getCurrentPrice:
\* the balance, Map and trades table it leaves.  stored is FALSE when the
\* INSERT of recordTrade throws.
PaperBuy(a, size, currentPrice, stored) ==
    IF TradePriceMissing(currentPrice) THEN
        [ok |-> FALSE, balance |-> paperBalance, positions |-> paperPositions,
         trades |-> trades]
    ELSE IF InsufficientBalance(paperBalance, size) THEN
        [ok |-> FALSE, balance |-> paperBalance, positions |-> paperPositions,
         trades |-> trades]
    ELSE IF ~stored THEN
        [ok |-> FALSE, balance |-> paperBalance, positions |-> paperPositions,
         trades |-> trades]
    ELSE
        LET tokenAmount == size \div currentPrice
        IN  [ok |-> TRUE,
             balance |-> paperBalance - size,
             positions |-> MapSet(paperPositions, a,
                                  [address |-> a, amount |-> tokenAmount,
                                   entryPrice |-> currentPrice, entrySize |-> size,
                                   entryTime |-> now]),
             trades |-> recordTrade(trades, a, "buy", tokenAmount, currentPrice, size)]

\* executePaperTrade(token, 0, 'sell') from the return of getCurrentPrice
PaperSell(a, currentPrice, stored) ==
    IF TradePriceMissing(currentPrice) THEN
        [ok |-> FALSE, balance |-> paperBalance, positions |-> paperPositions,
         trades |-> trades]
    ELSE IF ~MapHas(paperPositions, a) THEN
        [ok |-> FALSE, balance |-> paperBalance, positions |-> paperPositions,
         trades |-> trades]
    ELSE IF ~stored THEN
        [ok |-> FALSE, balance |-> paperBalance, positions |-> paperPositions,
         trades |-> trades]
    ELSE
        LET position == MapGet(paperPositions, a)
            exitValue == position.amount * currentPrice
            pnl == ProfitLoss(exitValue, position.entrySize)
        IN  [ok |-> TRUE,
             balance |-> BalanceAfterSell(paperBalance, position, exitValue),
             positions |-> MapDelete(paperPositions, a),
             trades |-> updateTradeStatus(
                            recordTrade(trades, a, "sell", position.amount,
                                        currentPrice, exitValue),
                            Len(trades) + 1, "completed", pnl, now)]

\* a Map iterator after the entry at place i has been deleted
IterAfterDelete(iter, i) == IF i # 0 /\ i <= iter THEN iter - 1 ELSE iter

----------------------------------------------------------------------------
(* Actions *)

(* The scanners' state *)

\* the sources the scanner runs, in the order startSourceScanners starts them
\* and Object.entries(this.scanners) lists them; the Bitquery scanner
\* reports Pump.fun tokens
Sources == << "bitquery", "raydium", "dexscreener" >>
SourceSet == {Sources[i] : i \in 1..Len(Sources)}

\* this.sourcePriority of the source a scanner's tokens name
sourcePriority(s) ==
    CASE s = "raydium" -> 10
      [] s = "bitquery" -> 9
      [] s = "dexscreener" -> 6

\* this.rateLimits[source].max and .window
rateLimitMax(s) ==
    CASE s = "bitquery" -> 60
      [] s = "raydium" -> 100
      [] s = "dexscreener" -> 120
rateLimitWindow == 60000

\* a source whose scanner has not been started has no scanner object
\* (gen 0); gen tells the objects of successive starts apart
NoScanner == [isRunning |-> FALSE, interval |-> FALSE, tokens |-> << >>, gen |-> 0]

\* no call of the rate limiter for api has returned yet
NoCalls(api) == [api |-> api, log |-> << >>]

\* the state the scanner's and the rate limiter's constructors leave
ScannerObjects ==
    /\ isScanning = FALSE
    /\ scanTimer = FALSE
    /\ scanners = [s \in SourceSet |-> NoScanner]
    /\ processedTokens = << >>
    /\ rateLimits = [s \in SourceSet |-> [current |-> 0, reset |-> now + rateLimitWindow]]
    /\ emitted = {}
    /\ scanFrames = EmptyBag
    /\ logSubscriptions = 0
    /\ requests = << >>

ScannerConstructed == ScannerObjects /\ calls = NoCalls("bitquery")

\* the state the constructor leaves, with PAPER_BALANCE balance and the
\* tokens table tbl
Constructed(balance, tbl) ==
    /\ paperBalance = balance
    /\ paperPositions = << >>
    /\ trades = << >>
    /\ tokens = tbl
    /\ now = 0
    /\ isTrading = FALSE
    /\ liveTimers = 0
    /\ timerHandle = FALSE
    /\ frames = [p \in Procs |-> Idle]

Init ==
    /\ Constructed(initialPaperBalance, << TokenRow("C"), TokenRow("A") >>)
    /\ ScannerConstructed

InitMonitor == Constructed(initialPaperBalance, CoreTokens) /\ ScannerConstructed

\* the frame p goes from f to g; a startTrading frame that ends calls
\* setInterval, whatever isTrading is by then
FrameStep(p, f, g) ==
    /\ frames' = [frames EXCEPT ![p] = g]
    /\ IF ArmsTimer(f, g)
       THEN liveTimers' = liveTimers + 1 /\ timerHandle' = TRUE
       ELSE UNCHANGED << liveTimers, timerHandle >>

StartFrames == Cardinality({q \in Procs : frames[q].kind = "start"})

\* startTrading()
StartTrading(p) ==
    /\ ~isTrading
    /\ frames[p].pc = "idle"
    /\ liveTimers + StartFrames < MaxTimers
    /\ isTrading' = TRUE
    /\ FrameStep(p, [Idle EXCEPT !.kind = "start"], checkTradingOpportunities("start"))
    /\ UNCHANGED << paperBalance, paperPositions, trades, tokens, now >>

\* stopTrading()
StopTrading ==
    /\ isTrading \/ timerHandle
    /\ isTrading' = FALSE
    /\ timerHandle' = FALSE
    /\ liveTimers' = IF timerHandle THEN liveTimers - 1 ELSE liveTimers
    /\ UNCHANGED << paperBalance, paperPositions, trades, tokens, now, frames >>

\* a live interval fires: the callback runs up to its first network await.
\* Nothing waits for the callback of the last firing to end.
TimerFire(p) ==
    /\ liveTimers > 0
    /\ frames[p].pc = "idle"
    /\ frames' = [frames EXCEPT ![p] = checkTradingOpportunities("timer")]
    /\ UNCHANGED << paperBalance, paperPositions, trades, tokens, now, isTrading,
                    liveTimers, timerHandle >>

\* checkMomentum returns in analyzeOpportunity
MomentumReturn(p, momentum) ==
    LET f == frames[p]
        token == Head(f.opps)
        analysis == analyzeOpportunity(token, momentum, paperPositions)
    IN  /\ f.pc = "momentum"
        /\ FrameStep(p, f,
              IF analysis.shouldTrade
              THEN [f EXCEPT !.pc = "buy_price", !.addr = token.address,
                             !.size = analysis.suggestedSize]
              ELSE AfterOpportunity(f, Tail(f.opps), paperPositions))
        /\ UNCHANGED << paperBalance, paperPositions, trades, tokens, now,
                        isTrading >>

\* getCurrentPrice returns in executePaperTrade(token, size, 'buy')
BuyPriceReturn(p, currentPrice, stored) ==
    LET f == frames[p]
        r == PaperBuy(f.addr, f.size, currentPrice, stored)
    IN  /\ f.pc = "buy_price"
        /\ paperBalance' = r.balance
        /\ paperPositions' = r.positions
        /\ trades' = r.trades
        /\ FrameStep(p, f,
              IF f.kind = "influencer" THEN Idle
              ELSE AfterOpportunity(f, Tail(f.opps), r.positions))
        /\ UNCHANGED << tokens, now, isTrading >>

\* getCurrentPrice returns in checkExitConditions
ExitPriceReturn(p, currentPrice) ==
    LET f == frames[p]
        holdTime == now - f.position.entryTime
        reason == ExitReason(f.position.entryPrice, currentPrice, holdTime)
    IN  /\ f.pc = "exit_price"
        /\ frames' = [frames EXCEPT ![p] =
              IF ExitPriceMissing(currentPrice) THEN NextEntry(f, paperPositions, f.iter)
              ELSE IF reason # ""
                   THEN [f EXCEPT !.pc = "sell_price", !.currentPrice = currentPrice,
                                  !.holdTime = holdTime, !.reason = reason]
                   ELSE NextEntry(f, paperPositions, f.iter)]
        /\ UNCHANGED << paperBalance, paperPositions, trades, tokens, now,
                        isTrading, liveTimers, timerHandle >>

\* getCurrentPrice returns in executePaperTrade(token, 0, 'sell')
SellPriceReturn(p, currentPrice, stored) ==
    LET f == frames[p]
        r == PaperSell(f.addr, currentPrice, stored)
        i == IF r.ok THEN IndexOf(paperPositions, f.addr) ELSE 0
    IN  /\ f.pc = "sell_price"
        /\ paperBalance' = r.balance
        /\ paperPositions' = r.positions
        /\ trades' = r.trades
        /\ frames' = [q \in Procs |->
              IF q = p THEN NextEntry(f, r.positions, IterAfterDelete(f.iter, i))
              ELSE [frames[q] EXCEPT !.iter = IterAfterDelete(@, i)]]
        /\ UNCHANGED << tokens, now, isTrading, liveTimers, timerHandle >>

\* executeInfluencerTrade(tokenSymbol, ..) for a token findTokenBySymbol finds:
\* executeTrade throws on the missing suggestedSize and the catch logs it
InfluencerTrade(p, a) ==
    LET analysis == InfluencerAnalysis(80)
    IN  /\ frames[p].pc = "idle"
        /\ \E i \in 1..Len(tokens) : tokens[i].address = a
        /\ IF executeTradeThrows(analysis)
           THEN UNCHANGED vars
           ELSE /\ frames' = [frames EXCEPT ![p] =
                      [Idle EXCEPT !.pc = "buy_price", !.kind = "influencer",
                                   !.addr = a, !.size = analysis.suggestedSize]]
                /\ UNCHANGED << paperBalance, paperPositions, trades, tokens, now,
                                isTrading, liveTimers, timerHandle >>

\* the clock moves on to the instant t
Advance(t) ==
    /\ t > now
    /\ now' = t
    /\ UNCHANGED << paperBalance, paperPositions, trades, tokens, isTrading,
                    liveTimers, timerHandle, frames >>

\* MultiSourceTokenScanner.analyzeAndStore stores a token it has found
AddToken(row) ==
    /\ tokens' = addToken(tokens, row)
    /\ UNCHANGED << paperBalance, paperPositions, trades, now, isTrading,
                    liveTimers, timerHandle, frames >>

\* SocialMonitor.updateTokenSocialScore stores the score it has computed for
\* a token of the table
UpdateTokenSocialScore(a, score) ==
    /\ \E i \in 1..Len(tokens) : tokens[i].address = a
    /\ tokens' = updateTokenSocialScore(tokens, a, score)
    /\ UNCHANGED << paperBalance, paperPositions, trades, now, isTrading,
                    liveTimers, timerHandle, frames >>

\* Frames are interchangeable: a new one takes the first free place of S.
FirstFree(S, p) ==
    /\ p \in S
    /\ frames[p].pc = "idle"
    /\ \A q \in S : frames[q].pc = "idle" => p <= q

\* The trades table holds fewer than B buys, or the buy that frame p is about
\* to try will not store one.
BuysBelow(B, p, currentPrice, stored) ==
    /\ frames[p].pc = "buy_price"
    /\ PaperBuy(frames[p].addr, frames[p].size, currentPrice, stored).ok
           => BuyCount < B

\* The engine with at most Cardinality(S) frames in flight, an oracle that
\* answers entries from BuyP and exits from ExitP, a clock that is read at
\* the instants D, and at most B buys.
Engine(S, BuyP, ExitP, D, B) ==
    \/ \E p \in S : FirstFree(S, p) /\ StartTrading(p) /\ UNCHANGED scannerVars
    \/ \E p \in S : FirstFree(S, p) /\ TimerFire(p) /\ UNCHANGED scannerVars
    \/ \E p \in S, m \in BOOLEAN : MomentumReturn(p, m) /\ UNCHANGED scannerVars
    \/ \E p \in S, c \in BuyP, s \in BOOLEAN :
          BuysBelow(B, p, c, s) /\ BuyPriceReturn(p, c, s) /\ UNCHANGED scannerVars
    \/ \E p \in S, c \in ExitP : ExitPriceReturn(p, c) /\ UNCHANGED scannerVars
    \/ \E p \in S, c \in ExitP, s \in BOOLEAN :
          SellPriceReturn(p, c, s) /\ UNCHANGED scannerVars
    \/ \E p \in S, a \in {"A", "B"} : FirstFree(S, p) /\ InfluencerTrade(p, a) /\ UNCHANGED scannerVars
    \/ \E t \in D : Advance(t) /\ UNCHANGED scannerVars

\* Overlapping callbacks, one token to trade
Next ==
    Engine(Procs, {NoPrice, 100, 200}, {NoPrice, 100, 200},
           {0, TwentyFourHours + checkInterval}, MaxBuys)

Spec == Init /\ [][Next]_vars

\* One callback at a time, two tokens to trade, entries at 1.0, every exit
\* price, every instant
NextMonitor == Engine({1}, {NoPrice, 100}, PriceResults, Instants, MaxBuys)

SpecMonitor == InitMonitor /\ [][NextMonitor]_vars

\* Overlapping callbacks on a balance that covers one entry, and a second
\* one only after a sale
InitFunds ==
    /\ Constructed(scarcePaperBalance, << TokenRow("C"), TokenRow("A") >>)
    /\ ScannerConstructed

NextFunds ==
    Engine(Procs, {NoPrice, 100}, {NoPrice, 79, 200}, {ThirtyMinutes}, MaxBuys)

SpecFunds == InitFunds /\ [][NextFunds]_vars

\* The engine started and stopped at will
NextLifecycle == Next \/ (StopTrading /\ UNCHANGED scannerVars)

SpecLifecycle == Init /\ [][NextLifecycle]_vars

\* Ten tokens that pass every static factor, and an eleventh the scanner has
\* stored and the social monitor has not scored yet.
ExposureTokens ==
    << TokenRow("T01"), TokenRow("T02"), TokenRow("T03"), TokenRow("T04"),
       TokenRow("T05"), TokenRow("T06"), TokenRow("T07"), TokenRow("T08"),
       TokenRow("T09"), TokenRow("T10"), TokenRow("T11") >>

InitExposure == Constructed(defaultPaperBalance, ExposureTokens) /\ ScannerConstructed

SellCount == Cardinality({i \in 1..Len(trades) : trades[i].side = "sell"})

\* One callback at a time over a table of eleven tokens, every lookup
\* answered, while the scanner and the social monitor write to the table
NextExposure ==
    \/ StartTrading(1) /\ UNCHANGED scannerVars
    \/ TimerFire(1) /\ UNCHANGED scannerVars
    \/ MomentumReturn(1, TRUE) /\ UNCHANGED scannerVars
    \/ BuysBelow(ExposureBuys, 1, 100, TRUE) /\ BuyPriceReturn(1, 100, TRUE) /\ UNCHANGED scannerVars
    \/ \E c \in {100, 200} : ExitPriceReturn(1, c) /\ UNCHANGED scannerVars
    \/ SellCount < ExposureSells /\ SellPriceReturn(1, 200, TRUE) /\ UNCHANGED scannerVars
    \/ AddToken(TokenRow("T12")) /\ UNCHANGED scannerVars
    \/ UpdateTokenSocialScore("T11", 60) /\ UNCHANGED scannerVars

SpecExposure == InitExposure /\ [][NextExposure]_vars

----------------------------------------------------------------------------
(* EnhancedMultiSourceScanner *)

\* the token the source s reports for the address a: Raydium pools take
\* Date.now() as createdAt, the other sources an earlier creation time
Reported(s, a) ==
    [address |-> a, source |-> s, priority |-> sourcePriority(s),
     createdAt |-> CASE s = "raydium" -> 30 [] s = "dexscreener" -> 20 [] OTHER -> 10,
     overallScore |-> IF a = 1 THEN 35 ELSE 25,
     riskScore |-> 30, liquidity |-> 6000]

\* the addresses and the creation times the sources report
CreationAddresses == {1, 2}
CreationTimes == {10, 20}

\* an upstream request that fails: a timeout, an error status, a payload
\* the scanner cannot read
FetchFailed == [ok |-> FALSE, tokens |-> << >>]
\* an upstream request that brings back the list of tokens
Fetched(list) == [ok |-> TRUE, tokens |-> list]

\* what one request to the source s can bring back
FetchResults(s) ==
    {FetchFailed, Fetched(<< Reported(s, 1) >>)}
        \cup (IF s = "bitquery" THEN {} ELSE {Fetched(<< Reported(s, 2) >>)})

\* this.processedTokens: a Set, kept as its elements in insertion order
SetHas(S, a) == \E i \in 1..Len(S) : S[i] = a
SetAdd(S, a) == IF SetHas(S, a) THEN S ELSE Append(S, a)

\* a checkRateLimit that lets the call through when current equals max
checkRateLimitLoose(limit, max, t) ==
    LET fresh == IF t > limit.reset
                 THEN [current |-> 0, reset |-> t + rateLimitWindow]
                 ELSE limit
    IN  IF fresh.current > max
        THEN [allowed |-> FALSE, limit |-> fresh]
        ELSE [allowed |-> TRUE, limit |-> [fresh EXCEPT !.current = @ + 1]]

\* a checkRateLimit that counts a call it lets through twice
checkRateLimitTwice(limit, max, t) ==
    LET fresh == IF t > limit.reset
                 THEN [current |-> 0, reset |-> t + rateLimitWindow]
                 ELSE limit
    IN  IF fresh.current >= max
        THEN [allowed |-> FALSE, limit |-> fresh]
        ELSE [allowed |-> TRUE, limit |-> [fresh EXCEPT !.current = @ + 2]]

\* a checkRateLimit that begins a new window while the old one still runs
checkRateLimitEarly(limit, max, t) ==
    LET fresh == IF t < limit.reset
                 THEN [current |-> 0, reset |-> t + rateLimitWindow]
                 ELSE limit
    IN  IF fresh.current >= max
        THEN [allowed |-> FALSE, limit |-> fresh]
        ELSE [allowed |-> TRUE, limit |-> [fresh EXCEPT !.current = @ + 1]]

\* checkRateLimit(source) at the instant t: the limit it leaves and what it
\* returns
checkRateLimit(limit, max, t) ==
    LET fresh == IF t > limit.reset
                 THEN [current |-> 0, reset |-> t + rateLimitWindow]
                 ELSE limit
    IN  IF fresh.current >= max
        THEN [allowed |-> FALSE, limit |-> fresh]
        ELSE [allowed |-> TRUE, limit |-> [fresh EXCEPT !.current = @ + 1]]

\* a scan of the source s in flight at its upstream request; start tells the
\* first scan, which sets the interval when it ends, from a timer's scan
ScanFrame(s, kind, gen) ==
    [pc |-> "fetch", kind |-> kind, source |-> s, gen |-> gen, queue |-> << >>]
\* the onLogs handler in flight at getParsedTransaction
LogFrame == [pc |-> "tx", kind |-> "logs", source |-> "raydium", gen |-> 0, queue |-> << >>]
\* aggregateAndProcessTokens in flight at db.addToken for the head of queue
StoreFrame(queue) ==
    [pc |-> "store", kind |-> "timer", source |-> "", gen |-> 0, queue |-> queue]

FramesAt(pc) == {f \in BagToSet(scanFrames) : f.pc = pc}
AddFrames(F) == scanFrames (+) SetToBag(F)
ReplaceFrame(f, F) == (scanFrames (-) SetToBag({f})) (+) SetToBag(F)

\* the tokens of a fetched list that processedTokens does not hold
NewTokens(list, processed) ==
    SelectSeq(list, LAMBDA t : ~SetHas(processed, t.address))

RECURSIVE SetTokens(_, _)
\* scanner.tokens.set(token.address, token) for each token of list
SetTokens(m, list) ==
    IF list = << >> THEN m
    ELSE SetTokens(MapSet(m, Head(list).address, Head(list)), Tail(list))

\* this.emit('token', token) for each token of list
EmitTokens(list) ==
    emitted \cup {[address |-> list[i].address, source |-> list[i].source] :
                      i \in 1..Len(list)}

\* startScanning() with the sources E enabled in scannerConfigs: every
\* enabled source's start function runs up to its first network await, then
\* the aggregation interval is set.  logsFail: connection.onLogs throws, so
\* startRaydiumMonitoring rejects before its first scan.
ScannerStarts(s, logsFail) == ~(s = "raydium" /\ logsFail)

\* a startScanning() that the failure of startRaydiumMonitoring ends: the
\* sources after Raydium are not started and the aggregation interval is
\* not set
StartScanningAborted(E, logsFail) ==
    LET chk(s) == checkRateLimit(rateLimits[s], rateLimitMax(s), now)
        reached(s) == s \in E /\ (~logsFail \/ s \in {"bitquery", "raydium"})
        scans(s) == reached(s) /\ ScannerStarts(s, logsFail)
    IN  /\ ~isScanning
        /\ isScanning' = TRUE
        /\ scanners' = [s \in SourceSet |->
              IF ~reached(s) THEN scanners[s]
              ELSE [isRunning |-> TRUE,
                    interval |-> scans(s) /\ ~chk(s).allowed,
                    tokens |-> << >>,
                    gen |-> scanners[s].gen + 1]]
        /\ rateLimits' = [s \in SourceSet |->
              IF scans(s) THEN chk(s).limit ELSE rateLimits[s]]
        /\ scanFrames' = AddFrames(
              {ScanFrame(s, "start", scanners[s].gen + 1) :
                  s \in {x \in SourceSet : scans(x) /\ chk(x).allowed}})
        /\ logSubscriptions' = IF "raydium" \in E /\ ~logsFail
                               THEN logSubscriptions + 1
                               ELSE logSubscriptions
        /\ scanTimer' = (scanTimer \/ ~logsFail)
        /\ UNCHANGED << processedTokens, emitted, requests, calls, tokens, now >>
        /\ UNCHANGED engineVars

StartScanning(E, logsFail) ==
    LET chk(s) == checkRateLimit(rateLimits[s], rateLimitMax(s), now)
        scans(s) == s \in E /\ ScannerStarts(s, logsFail)
    IN  /\ ~isScanning
        /\ isScanning' = TRUE
        /\ scanners' = [s \in SourceSet |->
              IF s \notin E THEN scanners[s]
              ELSE [isRunning |-> TRUE,
                    interval |-> scans(s) /\ ~chk(s).allowed,
                    tokens |-> << >>,
                    gen |-> scanners[s].gen + 1]]
        /\ rateLimits' = [s \in SourceSet |->
              IF scans(s) THEN chk(s).limit ELSE rateLimits[s]]
        /\ scanFrames' = AddFrames(
              {ScanFrame(s, "start", scanners[s].gen + 1) :
                  s \in {x \in SourceSet : scans(x) /\ chk(x).allowed}})
        /\ logSubscriptions' = IF "raydium" \in E /\ ~logsFail
                               THEN logSubscriptions + 1
                               ELSE logSubscriptions
        /\ scanTimer' = TRUE
        /\ UNCHANGED << processedTokens, emitted, requests, calls, tokens, now >>
        /\ UNCHANGED engineVars

\* stopScanning()
StopScanning ==
    /\ isScanning' = FALSE
    /\ scanners' = [s \in SourceSet |->
          IF scanners[s].gen = 0 THEN scanners[s]
          ELSE [scanners[s] EXCEPT !.interval = FALSE, !.isRunning = FALSE]]
    /\ scanTimer' = FALSE
    /\ UNCHANGED << processedTokens, rateLimits, emitted, scanFrames,
                    logSubscriptions, requests, calls, tokens, now >>
    /\ UNCHANGED engineVars

\* a scan() that goes on to its upstream request whatever checkRateLimit
\* returns
ScanTimerFireUnthrottled(s) ==
    LET chk == checkRateLimit(rateLimits[s], rateLimitMax(s), now)
    IN  /\ scanners[s].interval
        /\ IF ~scanners[s].isRunning
           THEN UNCHANGED << rateLimits, scanFrames >>
           ELSE /\ rateLimits' = [rateLimits EXCEPT ![s] = chk.limit]
                /\ scanFrames' = AddFrames({ScanFrame(s, "timer", scanners[s].gen)})
        /\ UNCHANGED << isScanning, scanTimer, scanners, processedTokens, emitted,
                        logSubscriptions, requests, calls, tokens, now >>
        /\ UNCHANGED engineVars

\* the interval of the source s fires: scan() runs up to its upstream request
ScanTimerFire(s) ==
    LET chk == checkRateLimit(rateLimits[s], rateLimitMax(s), now)
    IN  /\ scanners[s].interval
        /\ IF ~scanners[s].isRunning
           THEN UNCHANGED << rateLimits, scanFrames >>
           ELSE /\ rateLimits' = [rateLimits EXCEPT ![s] = chk.limit]
                /\ scanFrames' = IF chk.allowed
                                 THEN AddFrames({ScanFrame(s, "timer", scanners[s].gen)})
                                 ELSE scanFrames
        /\ UNCHANGED << isScanning, scanTimer, scanners, processedTokens, emitted,
                        logSubscriptions, requests, calls, tokens, now >>
        /\ UNCHANGED engineVars

\* the upstream request of the scan f returns result: the tokens that are
\* new go to the tokens Map of the scanner object the scan belongs to and
\* are emitted; the first scan then sets the object's interval
FetchReturn(f, result) ==
    LET s == f.source
        mine == scanners[s].gen = f.gen
        new == IF ~result.ok THEN << >>
               ELSE NewTokens(result.tokens, processedTokens)
    IN  /\ f \in FramesAt("fetch")
        /\ scanFrames' = scanFrames (-) SetToBag({f})
        /\ emitted' = EmitTokens(new)
        /\ scanners' = IF ~mine THEN scanners
                       ELSE [scanners EXCEPT
                               ![s].tokens = SetTokens(@, new),
                               ![s].interval = @ \/ f.kind = "start"]
        /\ UNCHANGED << isScanning, scanTimer, processedTokens, rateLimits,
                        logSubscriptions, requests, calls, tokens, now >>
        /\ UNCHANGED engineVars

\* a live onLogs subscription delivers the logs of a pool creation
LogsReceived ==
    /\ logSubscriptions > 0
    /\ scanFrames' = AddFrames({LogFrame})
    /\ UNCHANGED << isScanning, scanTimer, scanners, processedTokens, rateLimits,
                    emitted, logSubscriptions, requests, calls, tokens, now >>
    /\ UNCHANGED engineVars

\* getParsedTransaction and parseRaydiumPoolCreation return in the onLogs
\* handler; poolInfo is << >> when there is no pool to read or the call fails
TxReturn(f, poolInfo) ==
    LET new == NewTokens(poolInfo, processedTokens)
    IN  /\ f \in FramesAt("tx")
        /\ scanFrames' = scanFrames (-) SetToBag({f})
        /\ scanners' = [scanners EXCEPT !["raydium"].tokens = SetTokens(@, new)]
        /\ emitted' = EmitTokens(new)
        /\ processedTokens' = IF new = << >> THEN processedTokens
                              ELSE SetAdd(processedTokens, Head(new).address)
        /\ UNCHANGED << isScanning, scanTimer, rateLimits, logSubscriptions,
                        requests, calls, tokens, now >>
        /\ UNCHANGED engineVars

\* processedTokens above purgeThreshold elements loses its first purgeCount
purgeThreshold == 1000
purgeCount == 500

RECURSIVE Collect(_, _, _)
\* the tokens aggregateAndProcessTokens collects: scanner by scanner, each
\* tokens Map in its insertion order, without the processed addresses
Collect(srcs, scs, processed) ==
    IF srcs = << >> THEN << >>
    ELSE NewTokens(scs[Head(srcs)].tokens, processed)
             \o Collect(Tail(srcs), scs, processed)

\* the comparator of allTokens.sort: a goes before b
Before(a, b) ==
    IF a.priority # b.priority THEN a.priority > b.priority
    ELSE a.createdAt > b.createdAt

\* allTokens.slice(0, 20)
topLimit == 20

\* allTokens.sort(comparator).slice(0, limit): the first tokens of the stable
\* sort.  The token at i comes out ahead of the token at j when it goes
\* before it, or when neither goes before the other and i < j; the k-th of
\* the sorted array is the token with k - 1 tokens ahead of it.
TopTokens(list, limit) ==
    LET n == Len(list)
        Ahead(i, j) ==
            \/ Before(list[i], list[j])
            \/ ~Before(list[j], list[i]) /\ i < j
        Place(i) == Cardinality({j \in 1..n : Ahead(j, i)}) + 1
        m == IF n < limit THEN n ELSE limit
    IN  SubSeq([k \in 1..m |-> list[CHOOSE i \in 1..n : Place(i) = k]], 1, m)

\* analyzeAndStoreToken's test of the scores
scoreThreshold(source) ==
    IF source \in {"raydium", "pumpfun", "moonshot", "bitquery"} THEN 20 ELSE 30
Storable(token) ==
    token.overallScore > scoreThreshold(token.source) /\ token.riskScore < 85

\* the row analyzeAndStoreToken hands to db.addToken
ScannedRow(token) ==
    [address |-> token.address,
     social_score |-> IF token.source \in {"raydium", "bitquery"} THEN 15 ELSE 0,
     risk_score |-> token.riskScore,
     liquidity |-> token.liquidity]

\* a clean-up that drops the newest purgeCount elements
PurgeNewest(processed) ==
    IF Len(processed) > purgeThreshold
    THEN SubSeq(processed, 1, Len(processed) - purgeCount)
    ELSE processed

\* the clean-up that ends aggregateAndProcessTokens
Purge(processed) ==
    IF Len(processed) > purgeThreshold
    THEN SubSeq(processed, purgeCount + 1, Len(processed))
    ELSE processed

\* the loop over topTokens up to its next await: a token the scores turn
\* down is marked processed at once; a token to store waits for db.addToken.
\* The loop's end runs the clean-up.  stop is the place of the first token
\* to store; marked are the addresses the loop adds to the Set before it.
Drain(queue, processed) ==
    LET n == Len(queue)
        stop == IF \E i \in 1..n : Storable(queue[i])
                THEN CHOOSE i \in 1..n :
                         Storable(queue[i]) /\ \A j \in 1..(i - 1) : ~Storable(queue[j])
                ELSE n + 1
        New(k) == /\ ~SetHas(processed, queue[k].address)
                  /\ \A j \in 1..(k - 1) : queue[j].address # queue[k].address
        places == SelectSeq([k \in 1..(stop - 1) |-> k], New)
        marked == [m \in 1..Len(places) |-> queue[places[m]].address]
    IN  IF stop > n
        THEN [queue |-> << >>, processed |-> Purge(processed \o marked)]
        ELSE [queue |-> SubSeq(queue, stop, n), processed |-> processed \o marked]

\* the frame aggregateAndProcessTokens is left in, if any
StoreFrames(queue) == IF queue = << >> THEN {} ELSE {StoreFrame(queue)}

\* the aggregation interval fires
AggregateFire ==
    /\ scanTimer
    /\ \E allTokens \in {Collect(Sources, scanners, processedTokens)} :
       \E topTokens \in {TopTokens(allTokens, topLimit)} :
       \E d \in {Drain(topTokens, processedTokens)} :
          /\ processedTokens' = d.processed
          /\ scanFrames' = AddFrames(StoreFrames(d.queue))
    /\ UNCHANGED << isScanning, scanTimer, scanners, rateLimits, emitted,
                    logSubscriptions, requests, calls, tokens, now >>
    /\ UNCHANGED engineVars

\* db.addToken returns in analyzeAndStoreToken: the row is in the table and
\* the address joins processedTokens
StoreReturn(f) ==
    /\ f \in FramesAt("store")
    /\ \E token \in {Head(f.queue)} :
       \E d \in {Drain(Tail(f.queue), SetAdd(processedTokens, token.address))} :
          /\ tokens' = addToken(tokens, ScannedRow(token))
          /\ processedTokens' = d.processed
          /\ scanFrames' = ReplaceFrame(f, StoreFrames(d.queue))
    /\ UNCHANGED << isScanning, scanTimer, scanners, rateLimits, emitted,
                    logSubscriptions, requests, calls, now >>
    /\ UNCHANGED engineVars

\* fewer than F scanner frames are in flight at pc
FramesBelow(F, pc) ==
    BagCardinality([f \in FramesAt(pc) |-> CopiesIn(f, scanFrames)]) < F
\* the rate limit of s has counted fewer than C calls in its window
ChecksBelow(C, s) == rateLimits[s].current < C

\* The scanner with the sources E enabled, at most C scans of a source in a
\* window, first scans included, and at most F onLogs handlers and F
\* aggregations in flight.  The bot starts its scanner once, in start().
Scanner(E, C, F) ==
    \/ \E logsFail \in BOOLEAN :
          /\ \A s \in E : scanners[s].gen = 0
          /\ StartScanning(E, logsFail)
    \/ isScanning /\ StopScanning
    \/ \E s \in E : ChecksBelow(C, s) /\ ScanTimerFire(s)
    \/ \E f \in FramesAt("fetch") : \E result \in FetchResults(f.source) :
          FetchReturn(f, result)
    \/ FramesBelow(F, "tx") /\ LogsReceived
    \/ \E f \in FramesAt("tx") : \E poolInfo \in {<< >>, << Reported("raydium", 2) >>} :
          TxReturn(f, poolInfo)
    \/ FramesBelow(F, "store") /\ AggregateFire
    \/ \E f \in FramesAt("store") : StoreReturn(f)

InitScanner == Constructed(initialPaperBalance, << >>) /\ ScannerConstructed
NextScanner == Scanner({"raydium", "dexscreener"}, MaxChecks, MaxFrames)
SpecScanner == InitScanner /\ [][NextScanner]_vars

----------------------------------------------------------------------------
(* The rate limiters on their own: EnhancedMultiSourceScanner.checkRateLimit *)
(* for bitquery and RateLimiter.checkLimit for reddit, both 60 per 60000 ms  *)

\* RateLimiter's this.limits.reddit
redditCalls == 60
redditWindow == 60000

\* checkLimit(api) at the instant t on the timestamps reqs: what it returns
\* or throws, and the timestamps it leaves
checkLimit(reqs, limitCalls, window, t) ==
    LET windowStart == t - window
        recentRequests == SelectSeq(reqs, LAMBDA time : time > windowStart)
    IN  IF Len(recentRequests) >= limitCalls
        THEN [result |-> "throws", requests |-> reqs]
        ELSE [result |-> "true", requests |-> Append(recentRequests, t)]

\* the call's instant and result join the log
Logged(result) == [calls EXCEPT !.log = Append(@, [t |-> now, result |-> result])]

\* a caller awaits this.checkRateLimit('bitquery')
CheckRateLimit ==
    LET chk == checkRateLimit(rateLimits["bitquery"], rateLimitMax("bitquery"), now)
    IN  /\ calls.api = "bitquery"
        /\ rateLimits' = [rateLimits EXCEPT !["bitquery"] = chk.limit]
        /\ calls' = Logged(IF chk.allowed THEN "true" ELSE "false")
        /\ UNCHANGED << isScanning, scanTimer, scanners, processedTokens, emitted,
                        scanFrames, logSubscriptions, requests, tokens, now >>
        /\ UNCHANGED engineVars

\* a caller awaits rateLimiter.checkLimit('reddit')
CheckLimit ==
    LET chk == checkLimit(requests, redditCalls, redditWindow, now)
    IN  /\ calls.api = "reddit"
        /\ requests' = chk.requests
        /\ calls' = Logged(chk.result)
        /\ UNCHANGED << isScanning, scanTimer, scanners, processedTokens, emitted,
                        scanFrames, logSubscriptions, rateLimits, tokens, now >>
        /\ UNCHANGED engineVars

\* the instants the limiters are called at: within the first window, at its
\* end and more than a window later
RateInstants == {0, 59999, 60000, 120000}

InitRateLimit ==
    /\ Constructed(initialPaperBalance, << >>)
    /\ ScannerObjects
    /\ calls \in {NoCalls(api) : api \in {"bitquery", "reddit"}}

NextRateLimit ==
    \/ Len(calls.log) < MaxCalls /\ CheckRateLimit
    \/ Len(calls.log) < MaxCalls /\ CheckLimit
    \/ \E t \in RateInstants : Advance(t) /\ UNCHANGED scannerVars

SpecRateLimit == InitRateLimit /\ [][NextRateLimit]_vars

----------------------------------------------------------------------------
(* The burst of ScannerTestSuite.testRateLimiting: ten rapid requests put   *)
(* to the reddit limiter, next to the social monitor's checkLimit calls     *)

\* the requests of the test's loop
burstSize == 10

\* the test's loop has ended in an exception
TestFailed == \E i \in 1..Len(calls.log) : calls.log[i].result = "TypeError"

\* rateLimiter.throttle('reddit', fn): RateLimiter has the methods checkLimit
\* and getRemainingCalls and no throttle, so the call throws a TypeError
\* before fn is run, and the loop of the test ends
Throttle ==
    /\ calls.api = "reddit"
    /\ ~TestFailed
    /\ calls' = Logged("TypeError")
    /\ UNCHANGED << isScanning, scanTimer, scanners, processedTokens, emitted,
                    scanFrames, logSubscriptions, rateLimits, requests, tokens, now >>
    /\ UNCHANGED engineVars

InitBurst ==
    /\ Constructed(initialPaperBalance, << >>)
    /\ ScannerObjects
    /\ calls = NoCalls("reddit")

NextBurst ==
    \/ Len(calls.log) < burstSize /\ Throttle
    \/ Len(calls.log) < burstSize /\ CheckLimit
    \/ \E t \in RateInstants : Advance(t) /\ UNCHANGED scannerVars

SpecBurst == InitBurst /\ [][NextBurst]_vars

----------------------------------------------------------------------------
(* One source against its rate limit: DexScreener alone, its scans          *)
(* overlapping, until the 120 calls of a window are used and beyond          *)

\* the instant after the first window
ThrottleInstants == {rateLimitWindow + 1}

InitThrottle == Constructed(initialPaperBalance, << >>) /\ ScannerConstructed

NextThrottle ==
    \/ scanners["dexscreener"].gen = 0 /\ StartScanning({"dexscreener"}, FALSE)
    \/ FramesBelow(MaxChecks, "fetch") /\ ScanTimerFire("dexscreener")
    \/ \E f \in FramesAt("fetch") :
          \E result \in {FetchFailed, Fetched(<< Reported("dexscreener", 1) >>)} :
             FetchReturn(f, result)
    \/ \E t \in ThrottleInstants : Advance(t) /\ UNCHANGED scannerVars

SpecThrottle == InitThrottle /\ [][NextThrottle]_vars

----------------------------------------------------------------------------
(* MultiSourceTokenScanner: the scanners of two sources report tokens and   *)
(* handleNewToken takes them in.  scanners holds each scanner's own tokens  *)
(* Map, processedTokens the scanner's Set.                                  *)

\* config.scanners[source].priority
configPriority(s) ==
    CASE s = "pumpfun" -> 10
      [] s = "moonshot" -> 9
      [] s = "raydium" -> 8
      [] s = "birdeye" -> 6
      [] s = "dexscreener" -> 5
      [] OTHER -> 0

\* the token the scanner of s builds for the address a: each source has its
\* own reading of the liquidity, and the creation time it was told
Found(s, a, createdAt) ==
    [address |-> a, source |-> s, createdAt |-> createdAt,
     liquidity |-> IF s = "raydium" THEN 6000 ELSE 7000,
     overallScore |-> 35, riskScore |-> 30]

\* enrichTokenData(token, source) at the instant t
enrichTokenData(token, source, t) ==
    [address |-> token.address, source |-> source, createdAt |-> token.createdAt,
     liquidity |-> token.liquidity, overallScore |-> token.overallScore,
     riskScore |-> token.riskScore,
     discoveredAt |-> t, priority |-> configPriority(source)]

\* handleNewToken in flight with its enriched token, at the await of
\* fetchTokenPrice or of db.addToken
HandleFrame(enriched) ==
    [pc |-> "handle", kind |-> "event", source |-> enriched.source, gen |-> 0,
     queue |-> << enriched >>]

\* the row MultiSourceTokenScanner.analyzeAndStoreToken hands to db.addToken
HandledRow(token) ==
    [address |-> token.address, social_score |-> 0,
     risk_score |-> token.riskScore, liquidity |-> token.liquidity]

\* the scanner of s keeps a token it has seen before out (DexScreener); the
\* Raydium scanner sets and emits every pool it parses
SkipsKnown(s) == s = "dexscreener"

\* a handleNewToken that marks the address only when its analysis is over
SourceFindsMarkLate(s, a, createdAt) ==
    LET token == Found(s, a, createdAt)
    IN  /\ ~(SkipsKnown(s) /\ MapHas(scanners[s].tokens, a))
        /\ scanners' = [scanners EXCEPT ![s].tokens = MapSet(@, a, token)]
        /\ IF SetHas(processedTokens, a)
           THEN UNCHANGED << processedTokens, scanFrames >>
           ELSE /\ UNCHANGED processedTokens
                /\ scanFrames' = AddFrames({HandleFrame(enrichTokenData(token, s, now))})
        /\ UNCHANGED << isScanning, scanTimer, rateLimits, emitted,
                        logSubscriptions, requests, calls, tokens, now >>
        /\ UNCHANGED engineVars

\* the scanner of s finds the address a: it puts the token into its tokens
\* Map and emits it, and handleNewToken(token, s) runs up to its first await
SourceFinds(s, a, createdAt) ==
    LET token == Found(s, a, createdAt)
    IN  /\ ~(SkipsKnown(s) /\ MapHas(scanners[s].tokens, a))
        /\ scanners' = [scanners EXCEPT ![s].tokens = MapSet(@, a, token)]
        /\ IF SetHas(processedTokens, a)
           THEN UNCHANGED << processedTokens, scanFrames >>
           ELSE /\ processedTokens' = SetAdd(processedTokens, a)
                /\ scanFrames' = AddFrames({HandleFrame(enrichTokenData(token, s, now))})
        /\ UNCHANGED << isScanning, scanTimer, rateLimits, emitted,
                        logSubscriptions, requests, calls, tokens, now >>
        /\ UNCHANGED engineVars

\* db.addToken returns in handleNewToken's analyzeAndStoreToken
HandleReturn(f) ==
    /\ f \in FramesAt("handle")
    /\ tokens' = IF f.queue[1].overallScore > 25 /\ f.queue[1].riskScore < 85
                 THEN addToken(tokens, HandledRow(f.queue[1]))
                 ELSE tokens
    /\ scanFrames' = scanFrames (-) SetToBag({f})
    /\ UNCHANGED << isScanning, scanTimer, scanners, processedTokens, rateLimits,
                    emitted, logSubscriptions, requests, calls, now >>
    /\ UNCHANGED engineVars

\* the sources that have an entry for a in their tokens Maps
tokensByAddress(a) == {s \in SourceSet : MapHas(scanners[s].tokens, a)}

\* aggregateAndAnalyze(): it groups the scanners' tokens by address and logs
\* the addresses with more than one source
aggregateAndAnalyze ==
    /\ \E a \in CreationAddresses : Cardinality(tokensByAddress(a)) > 1
    /\ UNCHANGED vars

InitDedup == Constructed(initialPaperBalance, << >>) /\ ScannerConstructed

NextDedup ==
    \/ \E s \in {"raydium", "dexscreener"}, a \in CreationAddresses,
          createdAt \in CreationTimes : SourceFinds(s, a, createdAt)
    \/ \E f \in FramesAt("handle") : HandleReturn(f)
    \/ aggregateAndAnalyze
    \/ \E t \in {1} : Advance(t) /\ UNCHANGED scannerVars

SpecDedup == InitDedup /\ [][NextDedup]_vars

----------------------------------------------------------------------------
(* EnhancedTokenScanner: scanAll fetches from DexScreener, Birdeye and      *)
(* Raydium together, deduplicates and analyses what is new                  *)

\* the token a fetcher builds for the address a; a Raydium pool takes the
\* instant t of the fetch as its creation time
Fetcher(source, a, createdAt, t) ==
    [address |-> a, source |-> source,
     createdAt |-> IF source = "raydium-direct" THEN t ELSE createdAt,
     liquidity |-> CASE source = "raydium-direct" -> 1000
                     [] source = "dexscreener" -> 7000
                     [] OTHER -> 8000,
     overallScore |-> 35, riskScore |-> 30,
     isNew |-> source = "raydium-direct"]

\* what one fetcher can return at the instant t: nothing (also after an
\* error, which it catches), or its token for one address
FetcherResults(source, t) ==
    {<< >>} \cup {<< Fetcher(source, a, c, t) >> : a \in CreationAddresses, c \in CreationTimes}

RECURSIVE uniqueMap(_, _)
\* the Map deduplicateTokens builds from the tokens of list, starting from m
uniqueMap(m, list) ==
    IF list = << >> THEN m
    ELSE LET token == Head(list)
         IN  uniqueMap(IF ~MapHas(m, token.address) \/ token.source = "raydium-direct"
                       THEN MapSet(m, token.address, token)
                       ELSE m,
                       Tail(list))

\* deduplicateTokens(tokens)
deduplicateTokens(list) == uniqueMap(<< >>, list)

\* scanAll in flight at Promise.all of its three fetchers
FetchAllFrame ==
    [pc |-> "fetchAll", kind |-> "timer", source |-> "", gen |-> 0, queue |-> << >>]
\* scanAll in flight in its loop, at analyzeAndStoreToken for the head of queue
AnalyzeFrames(queue) ==
    IF queue = << >> THEN {}
    ELSE {[pc |-> "analyze", kind |-> "timer", source |-> "", gen |-> 0,
           queue |-> queue]}

\* the row EnhancedTokenScanner.analyzeAndStoreToken hands to db.addToken
AnalyzedRow(token) ==
    [address |-> token.address, social_score |-> IF token.isNew THEN 10 ELSE 0,
     risk_score |-> token.riskScore, liquidity |-> token.liquidity]

\* scanAll() starts, from startScanning or from the interval
ScanAll ==
    /\ scanFrames' = AddFrames({FetchAllFrame})
    /\ UNCHANGED << isScanning, scanTimer, scanners, processedTokens, rateLimits,
                    emitted, logSubscriptions, requests, calls, tokens, now >>
    /\ UNCHANGED engineVars

\* the three fetchers have returned
FetchAllReturn(f, dexScreenerTokens, birdeyeTokens, raydiumPools) ==
    LET allTokens == dexScreenerTokens \o birdeyeTokens \o raydiumPools
        uniqueTokens == deduplicateTokens(allTokens)
        newTokens == NewTokens(uniqueTokens, processedTokens)
    IN  /\ f \in FramesAt("fetchAll")
        /\ scanFrames' = ReplaceFrame(f, AnalyzeFrames(newTokens))
        /\ UNCHANGED << isScanning, scanTimer, scanners, processedTokens,
                        rateLimits, emitted, logSubscriptions, requests, calls,
                        tokens, now >>
        /\ UNCHANGED engineVars

\* analyzeAndStoreToken returns in scanAll's loop
AnalyzeReturn(f) ==
    LET token == Head(f.queue)
        threshold == IF token.source = "raydium-direct" THEN 20 ELSE 30
    IN  /\ f \in FramesAt("analyze")
        /\ tokens' = IF token.overallScore > threshold /\ token.riskScore < 85
                     THEN addToken(tokens, AnalyzedRow(token))
                     ELSE tokens
        /\ processedTokens' = SetAdd(processedTokens, token.address)
        /\ scanFrames' = ReplaceFrame(f, AnalyzeFrames(Tail(f.queue)))
        /\ UNCHANGED << isScanning, scanTimer, scanners, rateLimits, emitted,
                        logSubscriptions, requests, calls, now >>
        /\ UNCHANGED engineVars

\* the instant of a later scan
MergeInstants == {30}

InitMerge == Constructed(initialPaperBalance, << >>) /\ ScannerConstructed

NextMerge ==
    \/ FramesBelow(MaxFrames, "fetchAll") /\ FramesBelow(MaxFrames, "analyze") /\ ScanAll
    \/ \E f \in FramesAt("fetchAll") :
          \E d \in FetcherResults("dexscreener", now),
             b \in FetcherResults("birdeye", now),
             r \in FetcherResults("raydium-direct", now) : FetchAllReturn(f, d, b, r)
    \/ \E f \in FramesAt("analyze") : AnalyzeReturn(f)
    \/ \E t \in MergeInstants : Advance(t) /\ UNCHANGED scannerVars

SpecMerge == InitMerge /\ [][NextMerge]_vars

----------------------------------------------------------------------------
(* The clean-up of processedTokens: the scanner started again with its Set  *)
(* of processed addresses close to the threshold                            *)

\* the addresses 1..n in the order they were processed
Known(n) == [i \in 1..n |-> i]
\* the sizes of processedTokens the scanner is started again with
PurgeStarts == {981, 999, 1000}
\* a scanner object startScanning has made, after its first scan
Running == [isRunning |-> TRUE, interval |-> TRUE, tokens |-> << >>, gen |-> 1]
\* one DexScreener response: the 20 addresses after k
Batch(k) == [i \in 1..topLimit |-> Reported("dexscreener", k + i)]
\* what a DexScreener request brings back: nothing, 20 addresses never seen,
\* or addresses processed long ago
PurgeBatches == {FetchFailed, Fetched(Batch(purgeThreshold)), Fetched(Batch(0))}
\* what the onLogs handler reads: no pool, a pool never seen, or the pool
\* processed first
PurgePools == {<< >>, << Reported("raydium", 2 * purgeThreshold) >>, << Reported("raydium", 1) >>}

InitPurge ==
    /\ Constructed(initialPaperBalance, << >>)
    /\ isScanning = TRUE
    /\ scanTimer = TRUE
    /\ scanners = [s \in SourceSet |->
                      IF s \in {"raydium", "dexscreener"} THEN Running ELSE NoScanner]
    /\ processedTokens \in {Known(n) : n \in PurgeStarts}
    /\ rateLimits = [s \in SourceSet |-> [current |-> 0, reset |-> now + rateLimitWindow]]
    /\ emitted = {}
    /\ scanFrames = EmptyBag
    /\ logSubscriptions = 1
    /\ requests = << >>
    /\ calls = NoCalls("bitquery")

NextPurge ==
    \/ ChecksBelow(MaxChecks, "dexscreener") /\ ScanTimerFire("dexscreener")
    \/ \E f \in FramesAt("fetch") : \E result \in PurgeBatches : FetchReturn(f, result)
    \/ FramesBelow(MaxFrames, "tx") /\ LogsReceived
    \/ \E f \in FramesAt("tx") : \E poolInfo \in PurgePools : TxReturn(f, poolInfo)
    \/ FramesBelow(MaxFrames, "store") /\ AggregateFire
    \/ \E f \in FramesAt("store") : StoreReturn(f)

SpecPurge == InitPurge /\ [][NextPurge]_vars

----------------------------------------------------------------------------
(* The stand-alone PumpFunScanner of collectors/scanners, as test-pumpfun.js *)
(* runs it.  scanners["bitquery"] is the scanner object: it asks Bitquery.   *)

\* the listeners test-pumpfun.js has registered for the scanner's 'error'
\* event: it listens to 'token' only
errorListeners == 0

\* EventEmitter.emit('error', error): with no listener the error is thrown
EmitErrorThrows == errorListeners = 0

RECURSIVE Unseen(_, _)
\* the tokens of list the scanner's tokens Map does not hold
Unseen(list, m) ==
    IF list = << >> THEN << >>
    ELSE IF MapHas(m, Head(list).address) THEN Unseen(Tail(list), m)
         ELSE << Head(list) >> \o Unseen(Tail(list), m)

\* what the promise of one scanTokens() came to
Settled(result) == [calls EXCEPT !.log = Append(@, [t |-> now, result |-> result])]

\* start(): the scanner runs and its first scanTokens() is at its request
PumpFunStart ==
    /\ ~scanners["bitquery"].isRunning
    /\ scanners' = [scanners EXCEPT !["bitquery"].isRunning = TRUE,
                                    !["bitquery"].gen = @ + 1]
    /\ scanFrames' = AddFrames({ScanFrame("bitquery", "start", scanners["bitquery"].gen + 1)})
    /\ UNCHANGED << isScanning, scanTimer, processedTokens, rateLimits, emitted,
                    logSubscriptions, requests, calls, tokens, now >>
    /\ UNCHANGED engineVars

\* the scanner's interval fires: scanTokens() is called and not awaited
PumpFunTimerFire ==
    /\ scanners["bitquery"].interval
    /\ scanFrames' = AddFrames({ScanFrame("bitquery", "timer", scanners["bitquery"].gen)})
    /\ UNCHANGED << isScanning, scanTimer, scanners, processedTokens, rateLimits,
                    emitted, logSubscriptions, requests, calls, tokens, now >>
    /\ UNCHANGED engineVars

\* the request of scanTokens() returns.  A failure is logged and emitted as
\* 'error'; when that throws, scanTokens() rejects, and a start() that awaits
\* it rejects before it sets the interval.
ScanTokensReturn(f, result) ==
    LET new == IF result.ok THEN Unseen(result.tokens, scanners["bitquery"].tokens)
               ELSE << >>
        rejects == ~result.ok /\ EmitErrorThrows
        first == f.kind = "start" /\ f.gen = scanners["bitquery"].gen
    IN  /\ f \in FramesAt("fetch")
        /\ f.source = "bitquery"
        /\ scanFrames' = scanFrames (-) SetToBag({f})
        /\ scanners' = [scanners EXCEPT
                          !["bitquery"].tokens = SetTokens(@, new),
                          !["bitquery"].interval = @ \/ (first /\ ~rejects)]
        /\ emitted' = EmitTokens(new)
        /\ calls' = Settled(IF rejects THEN "rejects" ELSE "resolves")
        /\ UNCHANGED << isScanning, scanTimer, processedTokens, rateLimits,
                        logSubscriptions, requests, tokens, now >>
        /\ UNCHANGED engineVars

\* stop()
PumpFunStop ==
    /\ scanners["bitquery"].isRunning
    /\ scanners' = [scanners EXCEPT !["bitquery"].isRunning = FALSE,
                                    !["bitquery"].interval = FALSE]
    /\ UNCHANGED << isScanning, scanTimer, processedTokens, rateLimits, emitted,
                    scanFrames, logSubscriptions, requests, calls, tokens, now >>
    /\ UNCHANGED engineVars

\* what a request to Bitquery can bring back
PumpFunResults ==
    {FetchFailed, Fetched(<< >>)}
        \cup {Fetched(<< Reported("bitquery", a) >>) : a \in CreationAddresses}

InitPumpFun ==
    /\ Constructed(initialPaperBalance, << >>)
    /\ ScannerObjects
    /\ calls = NoCalls("pumpfun")

\* fewer than N scans have been started
ScansBelow(N) == Len(calls.log) + BagCardinality(scanFrames) < N

NextPumpFun ==
    \/ ScansBelow(MaxScans) /\ PumpFunStart
    \/ ScansBelow(MaxScans) /\ PumpFunTimerFire
    \/ \E f \in FramesAt("fetch") : \E result \in PumpFunResults : ScanTokensReturn(f, result)
    \/ PumpFunStop

SpecPumpFun == InitPumpFun /\ [][NextPumpFun]_vars

----------------------------------------------------------------------------
(* What the enhanced scanner's sources make of an upstream batch            *)

\* the address of a token whose upstream record had none (undefined)
NoAddress == 0
\* an upstream record: "ok" is well formed, "null" is no object, "bare" has
\* no nested object (no baseToken, no Trade), "noAddress" has the nested
\* object without its address
Shapes == {"ok", "null", "bare", "noAddress"}
RawRecords == [shape : Shapes, address : CreationAddresses]
\* the batches an upstream answers with: up to two records
Batches == {<< >>} \cup {<< r >> : r \in RawRecords}
              \cup {<< r, q >> : r \in RawRecords, q \in RawRecords}

\* the address the scanner reads from a record that has the nested object
AddressOf(r) == IF r.shape = "noAddress" THEN NoAddress ELSE r.address

RECURSIVE dexScreenerTokens(_)
\* the DexScreener scan over response.data.pairs: a pair that is null or has
\* no baseToken is filtered out, every other pair goes through
\* processDexScreenerToken
dexScreenerTokens(pairs) ==
    IF pairs = << >> THEN << >>
    ELSE IF Head(pairs).shape \in {"null", "bare"} THEN dexScreenerTokens(Tail(pairs))
         ELSE << Reported("dexscreener", AddressOf(Head(pairs))) >>
                  \o dexScreenerTokens(Tail(pairs))

\* fetchBitqueryMoonshot over DEXTradeByTokens: trades.map reads
\* trade.Trade.Currency.MintAddress of every trade; a trade without the
\* nested object throws, and the catch returns []
fetchBitqueryMoonshot(dexTrades) ==
    IF \E i \in 1..Len(dexTrades) : dexTrades[i].shape \in {"null", "bare"}
    THEN << >>
    ELSE [i \in 1..Len(dexTrades) |-> Reported("bitquery", AddressOf(dexTrades[i]))]

\* the tokens the scan of source s takes from the batch
Adapter(s, batch) ==
    IF s = "bitquery" THEN fetchBitqueryMoonshot(batch) ELSE dexScreenerTokens(batch)

\* the request of the scan f is answered with the batch (for Bitquery: the
\* Moonshot answer, after a Pump.fun answer without instructions)
IngestReturn(f, batch) == FetchReturn(f, Fetched(Adapter(f.source, batch)))

InitIngest == Constructed(initialPaperBalance, << >>) /\ ScannerConstructed

NextIngest ==
    \/ /\ \A s \in SourceSet : scanners[s].gen = 0
       /\ StartScanning({"bitquery", "dexscreener"}, FALSE)
    \/ \E s \in {"bitquery", "dexscreener"} : ChecksBelow(MaxChecks, s) /\ ScanTimerFire(s)
    \/ \E f \in FramesAt("fetch") : \E batch \in Batches : IngestReturn(f, batch)
    \/ FramesBelow(MaxFrames, "store") /\ AggregateFire
    \/ \E f \in FramesAt("store") : StoreReturn(f)

SpecIngest == InitIngest /\ [][NextIngest]_vars

----------------------------------------------------------------------------
(* Scoring: analyzeAndStoreToken of EnhancedMultiSourceScanner and of       *)
(* MultiSourceTokenScanner over tokens with their upstream figures.         *)
(* overallScore is kept tenfold, so that its weights are whole numbers;     *)
(* for every combination of sub-scores the double the code computes lies    *)
(* on the same side of each threshold as the exact sum.                     *)

\* sourceBonus[token.source] || 0
sourceBonus(source) ==
    CASE source = "raydium" -> 25
      [] source = "pumpfun" -> 20
      [] source = "moonshot" -> 15
      [] source = "jupiter" -> 10
      [] source \in {"dexscreener", "birdeye", "bitquery"} -> 5
      [] OTHER -> 0

scoreLiquidity(liquidity) ==
    CASE liquidity >= 50000 -> 100
      [] liquidity >= 25000 /\ liquidity < 50000 -> 80
      [] liquidity >= 10000 /\ liquidity < 25000 -> 60
      [] liquidity >= 5000 /\ liquidity < 10000 -> 40
      [] liquidity >= 1000 /\ liquidity < 5000 -> 20
      [] OTHER -> 10

scoreMomentum(priceChange, volume24h) ==
    LET byPrice == CASE priceChange > 100 -> 30
                     [] priceChange > 50 /\ priceChange <= 100 -> 25
                     [] priceChange > 20 /\ priceChange <= 50 -> 20
                     [] priceChange > 10 /\ priceChange <= 20 -> 15
                     [] priceChange > 5 /\ priceChange <= 10 -> 10
                     [] OTHER -> 0
        byVolume == CASE volume24h > 100000 -> 20
                      [] volume24h > 50000 /\ volume24h <= 100000 -> 15
                      [] volume24h > 10000 /\ volume24h <= 50000 -> 10
                      [] volume24h > 1000 /\ volume24h <= 10000 -> 5
                      [] OTHER -> 0
        sum == 50 + byPrice + byVolume
    IN  IF sum > 100 THEN 100 ELSE sum

\* the minutes of the code are counted in milliseconds here
Minutes(n) == n * 60000

\* scoreAge(createdAt) at the instant t of Date.now()
scoreAge(createdAt, t) ==
    LET age == t - createdAt
    IN  CASE age < Minutes(5) -> 100
          [] age >= Minutes(5) /\ age < Minutes(30) -> 90
          [] age >= Minutes(30) /\ age < Minutes(60) -> 80
          [] age >= Minutes(60) /\ age < Minutes(180) -> 60
          [] age >= Minutes(180) /\ age < Minutes(360) -> 40
          [] age >= Minutes(360) /\ age < Minutes(720) -> 20
          [] OTHER -> 10

\* a scoreVolume whose buckets take in their lower ends
scoreVolumeInclusive(volume, liquidity) ==
    IF liquidity = 0 THEN 0
    ELSE CASE volume >= 5 * liquidity -> 100
           [] 5 * liquidity > volume /\ volume >= 2 * liquidity -> 80
           [] 2 * liquidity > volume /\ volume >= liquidity -> 60
           [] liquidity > volume /\ 2 * volume >= liquidity -> 40
           [] liquidity > 2 * volume /\ 10 * volume >= liquidity -> 20
           [] OTHER -> 10

\* scoreVolume: the ratio volume / liquidity against 5, 2, 1, 0.5 and 0.1
scoreVolume(volume, liquidity) ==
    IF liquidity = 0 THEN 0
    ELSE CASE volume > 5 * liquidity -> 100
           [] 5 * liquidity >= volume /\ volume > 2 * liquidity -> 80
           [] 2 * liquidity >= volume /\ volume > liquidity -> 60
           [] liquidity >= volume /\ 2 * volume > liquidity -> 40
           [] liquidity >= 2 * volume /\ 10 * volume > liquidity -> 20
           [] OTHER -> 10

\* Math.min(100, Math.max(0, risk))
Clamp(risk) == IF risk > 100 THEN 100 ELSE IF risk < 0 THEN 0 ELSE risk

\* the penalties both calculateRiskScore functions begin with, for a token
\* created at createdAt
riskBase(token, createdAt, t) ==
    LET age == t - createdAt
    IN  40
        + (CASE token.liquidity < 5000 -> 20
             [] token.liquidity >= 5000 /\ token.liquidity < 10000 -> 10
             [] OTHER -> 0)
        + (CASE Abs(token.priceChange24h) > 200 -> 20
             [] Abs(token.priceChange24h) > 100 /\ Abs(token.priceChange24h) <= 200 -> 10
             [] OTHER -> 0)
        + (CASE age < Minutes(10) -> 20
             [] age >= Minutes(10) /\ age < Minutes(30) -> 15
             [] age >= Minutes(30) /\ age < Minutes(60) -> 10
             [] OTHER -> 0)

\* EnhancedMultiSourceScanner.calculateRiskScore at the instant t
calculateRiskScore(token, analysis, t) ==
    Clamp(riskBase(token, token.createdAt, t)
          - (IF token.source \in {"raydium", "jupiter"} THEN 10 ELSE 0)
          - (IF token.source \in {"pumpfun", "moonshot"} THEN 5 ELSE 0)
          + (IF analysis.liquidityScore + analysis.momentumScore
                  + analysis.ageScore + analysis.volumeScore < 4 * 40
             THEN 15 ELSE 0))

\* the risk a token is stored below, whatever its source
riskCeiling == 85

\* what EnhancedMultiSourceScanner.analyzeAndStoreToken computes for the
\* token at the instant t
score(token, t) ==
    LET bonus == sourceBonus(token.source)
        analysis == [liquidityScore |-> scoreLiquidity(token.liquidity),
                     momentumScore |-> scoreMomentum(token.priceChange24h, token.volume24h),
                     ageScore |-> scoreAge(token.createdAt, t) + bonus,
                     volumeScore |-> scoreVolume(token.volume24h, token.liquidity),
                     sourceScore |-> bonus]
    IN  [liquidityScore |-> analysis.liquidityScore,
         momentumScore |-> analysis.momentumScore,
         ageScore |-> analysis.ageScore,
         volumeScore |-> analysis.volumeScore,
         sourceScore |-> analysis.sourceScore,
         overallScore |-> 2 * analysis.liquidityScore + 2 * analysis.momentumScore
                            + 3 * analysis.ageScore + 2 * analysis.volumeScore
                            + analysis.sourceScore,
         riskScore |-> calculateRiskScore(token, analysis, t),
         threshold |-> 10 * scoreThreshold(token.source),
         ceiling |-> riskCeiling]

\* token.createdAt || Date.now()
createdAtOr(token, t) == IF token.createdAt = 0 THEN t ELSE token.createdAt

\* MultiSourceTokenScanner.calculateRiskScore at the instant t
calculateRiskScoreMulti(token, t) ==
    Clamp(riskBase(token, createdAtOr(token, t), t)
          - (IF token.source \in {"birdeye", "raydium"} THEN 10 ELSE 0))

\* what MultiSourceTokenScanner.analyzeAndStoreToken computes for the token
\* at the instant t
scoreMulti(token, t) ==
    LET analysis == [liquidityScore |-> scoreLiquidity(token.liquidity),
                     momentumScore |-> scoreMomentum(token.priceChange24h, token.volume24h),
                     ageScore |-> scoreAge(createdAtOr(token, t), t),
                     volumeScore |-> scoreVolume(token.volume24h,
                                        IF token.liquidity = 0 THEN 1 ELSE token.liquidity),
                     sourceScore |-> configPriority(token.source) * 10]
    IN  [liquidityScore |-> analysis.liquidityScore,
         momentumScore |-> analysis.momentumScore,
         ageScore |-> analysis.ageScore,
         volumeScore |-> analysis.volumeScore,
         sourceScore |-> analysis.sourceScore,
         overallScore |-> 2 * (analysis.liquidityScore + analysis.momentumScore
                                 + analysis.ageScore + analysis.volumeScore
                                 + analysis.sourceScore),
         riskScore |-> calculateRiskScoreMulti(token, t),
         threshold |-> 10 * 25,
         ceiling |-> riskCeiling]

\* the test that lets analyzeAndStoreToken store the token
passesGate(result) ==
    result.overallScore > result.threshold /\ result.riskScore < result.ceiling

\* analyzeAndStoreToken(token) of the scanner calls.api names: the scores
\* are computed at Date.now(), and the token is stored when it passes
AnalyzeAndStoreToken(token) ==
    LET result == IF calls.api = "enhanced" THEN score(token, now)
                  ELSE scoreMulti(token, now)
        stored == passesGate(result)
    IN  /\ calls.api \in {"enhanced", "multi"}
        /\ calls' = [calls EXCEPT !.log = Append(@,
                        [t |-> now, token |-> token, result |-> result,
                         stored |-> stored])]
        /\ tokens' = IF stored
                     THEN addToken(tokens,
                             [address |-> token.address,
                              social_score |-> IF calls.api = "enhanced"
                                                  /\ token.source \in {"raydium", "pumpfun"}
                                               THEN 15 ELSE 0,
                              risk_score |-> result.riskScore,
                              liquidity |-> token.liquidity])
                     ELSE tokens
        /\ UNCHANGED << isScanning, scanTimer, scanners, processedTokens,
                        rateLimits, emitted, scanFrames, logSubscriptions,
                        requests, now >>
        /\ UNCHANGED engineVars

\* the tokens that are scored and the instants of scoring: 2 minutes and
\* 800 minutes after the creation time
Created == Minutes(1)
ScoreTokens ==
    [address : {1}, source : {"raydium", "pumpfun", "dexscreener", "birdeye"},
     liquidity : {4000, 60000}, volume24h : {0, 120000},
     priceChange24h : {120, 250}, createdAt : {Created}]
ScoreInstants == {Created + Minutes(2), Created + Minutes(800)}

InitScore ==
    /\ Constructed(initialPaperBalance, << >>)
    /\ ScannerObjects
    /\ calls \in {NoCalls(api) : api \in {"enhanced", "multi"}}

NextScore ==
    \/ \E token \in ScoreTokens :
          /\ Len(calls.log) < MaxScores
          /\ now >= token.createdAt
          /\ AnalyzeAndStoreToken(token)
    \/ \E t \in ScoreInstants : Advance(t) /\ UNCHANGED scannerVars

SpecScore == InitScore /\ [][NextScore]_vars

----------------------------------------------------------------------------
(* Properties *)

Addresses == {"A", "B"}

\* the step appends a row to the trades table
Recorded == Len(trades') = Len(trades) + 1
NewRow == trades'[Len(trades')]
\* the step appends a buy (a sell) row for a
Bought(a) == Recorded /\ NewRow.side = "buy" /\ NewRow.tokenAddress = a
Sold(a) == Recorded /\ NewRow.side = "sell" /\ NewRow.tokenAddress = a

\* C1: no step records a buy for an address that has an Open position, for
\* any interleaving of timer callbacks and influencer entries.
C1_NoBuyOverOpenPosition ==
    [][\A a \in Addresses : MapHas(paperPositions, a) => ~Bought(a)]_vars

\* The four exit rules as the design states them, on the prices themselves:
\* a gain of at least 100% is currentPrice >= 2 entryPrice, and so on.
Rule1(e, c, h) == c >= 2 * e
Rule2(e, c, h) == 2 * c >= 3 * e /\ h > 30 * 60 * 1000
Rule3(e, c, h) == 5 * c <= 4 * e
Rule4(e, c, h) == h > 24 * 60 * 60 * 1000 /\ 10 * c < 11 * e
FirstMatch(e, c, h) ==
    CASE Rule1(e, c, h) -> "take_profit_100"
      [] ~Rule1(e, c, h) /\ Rule2(e, c, h) -> "take_profit_50"
      [] ~Rule1(e, c, h) /\ ~Rule2(e, c, h) /\ Rule3(e, c, h) -> "stop_loss"
      [] ~Rule1(e, c, h) /\ ~Rule2(e, c, h) /\ ~Rule3(e, c, h) /\ Rule4(e, c, h)
            -> "time_exit_24h"
      [] OTHER -> ""

\* the hold time checkExitConditions computes for the frame p
HoldTime(p) == now - frames[p].position.entryTime

\* C2: on every monitoring step in which a price is available the first of
\* the four rules that matches decides: the frame goes on to sell with that
\* reason, and with no match it leaves the position Open and sells nothing.
C2_ExitRulesInPriorityOrder ==
    [][\A p \in Procs, c \in Prices :
          ExitPriceReturn(p, c) =>
             LET want == FirstMatch(frames[p].position.entryPrice, c, HoldTime(p))
             IN  IF want = ""
                 THEN /\ frames'[p].pc # "sell_price"
                      /\ UNCHANGED << paperPositions, trades, paperBalance >>
                 ELSE /\ frames'[p].pc = "sell_price"
                      /\ frames'[p].addr = frames[p].addr
                      /\ frames'[p].reason = want]_vars

\* a sell is awaited with take_profit_100 where rule 2 matches as well
C2_BothTakeProfitsMatch ==
    \E p \in Procs :
        /\ frames[p].pc = "sell_price"
        /\ frames[p].reason = "take_profit_100"
        /\ Rule2(frames[p].position.entryPrice, frames[p].currentPrice,
                 frames[p].holdTime)

C5_OneTradePerClose ==
    [][/\ Len(trades') <= Len(trades) + 1
       /\ \A a \in Addresses :
             /\ MapHas(paperPositions, a) /\ ~MapHas(paperPositions', a)
                => Sold(a) /\ paperBalance' = paperBalance + NewRow.sol_amount
             /\ Sold(a) => MapHas(paperPositions, a) /\ ~MapHas(paperPositions', a)
             /\ ~Recorded => paperBalance' = paperBalance]_vars

\* a frame still awaits its sell of a position another frame has closed
C5_SecondSellerFindsNothing ==
    \E p \in Procs :
        /\ frames[p].pc = "sell_price"
        /\ ~MapHas(paperPositions, frames[p].addr)
        /\ \E i \in 1..Len(trades) :
              trades[i].side = "sell" /\ trades[i].tokenAddress = frames[p].addr

\* C8: a price lookup that fails in monitoring, in checkExitConditions or in
\* the sell it issued, leaves the Map, the trades table and the balance as
\* they were and issues no sell: the position stays Open for the next
\* iteration over the Map.
C8_FailedLookupSkips ==
    [][\A p \in Procs :
          /\ ExitPriceReturn(p, NoPrice)
             => /\ UNCHANGED << paperPositions, trades, paperBalance >>
                /\ frames'[p].pc # "sell_price"
          /\ \A s \in BOOLEAN :
                SellPriceReturn(p, NoPrice, s)
                => UNCHANGED << paperPositions, trades, paperBalance >>]_vars

\* a frame awaits the price of an Open position it is monitoring
C8_LookupPending ==
    \E p \in Procs :
        /\ frames[p].pc \in {"exit_price", "sell_price"}
        /\ MapHas(paperPositions, frames[p].addr)
        /\ ENABLED ExitPriceReturn(p, NoPrice) \/ ENABLED SellPriceReturn(p, NoPrice, TRUE)

\* C9: an entry whose price lookup fails, whose size exceeds the balance or
\* whose trade record fails to store leaves the Map, the balance and the
\* trades table exactly as they were.
C9_FailedEntryChangesNothing ==
    [][\A p \in Procs, c \in PriceResults, s \in BOOLEAN :
          /\ BuyPriceReturn(p, c, s)
          /\ c = NoPrice \/ paperBalance < frames[p].size \/ ~s
          => UNCHANGED << paperPositions, paperBalance, trades >>]_vars

\* an entry is awaiting its price with a size the balance does not cover
C9_EntryWithoutFunds ==
    \E p \in Procs :
        /\ frames[p].pc = "buy_price"
        /\ paperBalance < frames[p].size
        /\ trades # << >>

RECURSIVE Ledger(_)
\* the exit values of the sells less the sizes of the buys
Ledger(tbl) ==
    IF tbl = << >> THEN 0
    ELSE (IF Head(tbl).side = "buy" THEN 0 - Head(tbl).sol_amount
          ELSE Head(tbl).sol_amount) + Ledger(Tail(tbl))

\* C10: the balance is the initial balance less the sizes of the recorded
\* buys plus the exit values of the recorded sells, in every state of every
\* interleaving.
C10_BalanceMatchesTrades ==
    paperBalance = initialPaperBalance + Ledger(trades)

\* buys of overlapping frames and a sell have all reached the balance
C10_OverlappingEntriesAndExit ==
    /\ \E i, j \in 1..Len(trades) :
          i < j /\ trades[i].side = "buy" /\ trades[j].side = "buy"
    /\ \E i \in 1..Len(trades) : trades[i].side = "sell"
    /\ \E p, q \in Procs : p # q /\ frames[p].pc # "idle" /\ frames[q].pc # "idle"

\* C6: the Map never holds more than maxPositions positions.
C6_OpenWithinMaximum == getActivePositionCount(paperPositions) <= maxPositions

\* the day's realized loss exceeds maxDailyLoss of the balance
LossLimitBreached ==
    (0 - getDailyPnL(trades, now)) * 100 > maxDailyLossPct * paperBalance

\* C7: no step records a buy while the daily-loss limit is breached.
C7_NoEntryWhileBreached ==
    [][LossLimitBreached => \A a \in Addresses : ~Bought(a)]_vars

\* C11: while the engine is stopped no timer callback starts, and no step
\* opens or closes a position, records a Trade or changes the balance.
C11_NothingAfterStop ==
    [][~isTrading =>
          /\ UNCHANGED << paperPositions, trades, paperBalance >>
          /\ \A p \in Procs : frames[p].pc = "idle" => frames'[p].kind # "timer"]_vars


\* C12: while the scanner is stopped no step adds a token to a scanner's
\* tokens Map or to processedTokens, emits a token event, stores a token,
\* sets an interval or leaves a subscription live.
C12_NothingAfterStopScanning ==
    [][~isScanning /\ ~isScanning' =>
          /\ \A s \in SourceSet :
                /\ scanners'[s].tokens = scanners[s].tokens
                /\ ~scanners'[s].interval
          /\ UNCHANGED << processedTokens, emitted, tokens >>
          /\ logSubscriptions' = 0]_vars


\* the limiter let the call through; the limiter refused it, by returning
\* false (checkRateLimit) or by throwing (RateLimiter.checkLimit)
Allowed(call) == call.result = "true"
Refused(call) == call.result \in {"false", "throws"}
\* the call was made inside the window that began when the limiter was made
InFirstWindow(call) == call.t < rateLimitWindow

\* C13: with 60 calls per 60000 ms, the first 60 calls inside the window are
\* allowed and every later call inside it is refused; a call made more than
\* a window after all the calls before it is allowed again.
C13_SixtyPerWindow ==
    LET log == calls.log
        i == Len(log)
    IN  i > 0 =>
          /\ InFirstWindow(log[i]) /\ i <= 60 => Allowed(log[i])
          /\ InFirstWindow(log[i]) /\ i > 60 => Refused(log[i])
          /\ (\A j \in 1..(i - 1) : log[j].t < log[i].t - rateLimitWindow)
                => Allowed(log[i])

\* 60 calls allowed and the 61st refused late in the window, then a call
\* allowed when the window is over
C13_RefusedThenAllowedAgain ==
    /\ Len(calls.log) = 62
    /\ Refused(calls.log[61]) /\ calls.log[61].t = 59999
    /\ Allowed(calls.log[62]) /\ calls.log[62].t = 120000


\* the scans of the source s in flight
ScansInFlight(s) ==
    BagCardinality([f \in {g \in FramesAt("fetch") : g.source = s} |->
                       CopiesIn(f, scanFrames)])
\* the same after the step
ScansInFlightAfter(s) ==
    LET at == {g \in BagToSet(scanFrames') : g.pc = "fetch" /\ g.source = s}
    IN  BagCardinality([f \in at |-> CopiesIn(f, scanFrames')])

\* C14: whatever scans of a source are in flight, a step that lets a call
\* through starts one scan and adds exactly one to the counter of the
\* window (one, in a new window); no other step changes the counter; the
\* counter never passes the maximum.
C14_CountedOnce ==
    [][\A s \in SourceSet :
          LET started == ScansInFlightAfter(s) - ScansInFlight(s)
              old == rateLimits[s]
              new == rateLimits'[s]
          IN  /\ new.current <= rateLimitMax(s)
              /\ started > 0 =>
                    /\ started = 1
                    /\ new.current = IF new.reset # old.reset THEN 1
                                     ELSE old.current + 1
              /\ started <= 0 => new = old]_vars

\* two scans in flight, the window's last call among them
C14_ConcurrentCallersAtMaximum ==
    /\ ScansInFlight("dexscreener") = 2
    /\ rateLimits["dexscreener"].current = rateLimitMax("dexscreener")

\* the rate limit refuses the source s at this instant
Throttled(s) ==
    /\ rateLimits[s].current >= rateLimitMax(s)
    /\ ~(now > rateLimits[s].reset)

\* C15: while the rate limit refuses a source, a cycle of that source makes
\* no upstream request and leaves nothing behind: no scan is started or
\* queued, and no state of the scanner changes.
C15_ThrottledCycleSkipped ==
    [][\A s \in SourceSet :
          Throttled(s) /\ ScanTimerFire(s) =>
              /\ ScansInFlightAfter(s) = ScansInFlight(s)
              /\ UNCHANGED scannerVars]_vars

\* the interval is live, the limit is used up and no scan is in flight: the
\* next cycle is refused
C15_CycleRefused ==
    /\ Throttled("dexscreener")
    /\ scanners["dexscreener"].interval /\ scanners["dexscreener"].isRunning
    /\ ScansInFlight("dexscreener") = 0


\* the record c is marked as confirmed by several sources
IsMultiSource(c) == "multiSource" \in DOMAIN c /\ c.multiSource = TRUE
\* the sources the record c names
SourcesOf(c) ==
    IF "sources" \in DOMAIN c THEN c.sources
    ELSE IF "source" \in DOMAIN c THEN {c.source} ELSE {}
\* the tokens handleNewToken has in flight for a, and a's rows of the table
InFlightFor(a) == {f.queue[1] : f \in {g \in FramesAt("handle") : g.queue[1].address = a}}
RowsFor(a) == {i \in 1..Len(tokens) : tokens[i].address = a}

\* C16: an address two sources have reported has exactly one candidate, in
\* flight or stored, and that candidate is marked multiSource and names
\* the two sources.
C16_OneMultiSourceCandidate ==
    \A a \in CreationAddresses :
        Cardinality(tokensByAddress(a)) = 2 =>
            /\ Cardinality(InFlightFor(a)) + Cardinality(RowsFor(a)) = 1
            /\ \A c \in InFlightFor(a) :
                  IsMultiSource(c) /\ Cardinality(SourcesOf(c)) = 2
            /\ \A i \in RowsFor(a) :
                  IsMultiSource(tokens[i]) /\ Cardinality(SourcesOf(tokens[i])) = 2


\* the priority of a source of scanAll: Raydium first, then DexScreener,
\* then Birdeye
mergePriority(source) ==
    CASE source = "raydium-direct" -> 10
      [] source = "dexscreener" -> 6
      [] OTHER -> 5
\* the reports of the address a in list
ReportsOf(list, a) == {list[i] : i \in {j \in 1..Len(list) : list[j].address = a}}
\* the report of the highest-priority source, and the earliest creation time
TopReport(R) == CHOOSE r \in R : \A q \in R : mergePriority(q.source) <= mergePriority(r.source)
Earliest(R) == CHOOSE c \in {r.createdAt : r \in R} : \A r \in R : c <= r.createdAt
\* the frames the step has added
NewFrames == BagToSet(scanFrames' (-) scanFrames)

\* C17: each token scanAll goes on with after deduplication has the
\* liquidity its highest-priority source reported and the earliest creation
\* time any source reported for its address.
C17_MergedByPriority ==
    [][\A f \in FramesAt("fetchAll") :
          \A d \in FetcherResults("dexscreener", now),
             b \in FetcherResults("birdeye", now),
             r \in FetcherResults("raydium-direct", now) :
             FetchAllReturn(f, d, b, r) =>
                \A g \in NewFrames : \A i \in 1..Len(g.queue) :
                    LET c == g.queue[i]
                        R == ReportsOf(d \o b \o r, c.address)
                    IN  /\ c.liquidity = TopReport(R).liquidity
                        /\ c.createdAt = Earliest(R)]_vars


\* a step that ends a pass of aggregateAndProcessTokens
PassEnds ==
    \/ AggregateFire /\ scanFrames' = scanFrames
    \/ \E f \in FramesAt("store") : StoreReturn(f) /\ scanFrames' = scanFrames (-) SetToBag({f})
\* P is the beginning of Q
IsPrefix(P, Q) == Len(P) <= Len(Q) /\ \A i \in 1..Len(P) : Q[i] = P[i]

\* C18: only the end of an aggregation pass removes addresses from
\* processedTokens.  A pass that ends with more than 1000 addresses removes
\* the 500 that were added first, whatever has been reported again since,
\* and leaves the others in their order: 500 plus those beyond 1000.  A pass
\* that ends with at most 1000 removes none.
C18_OldestHalfPurged ==
    [][LET P == processedTokens
           Q == processedTokens'
       IN  IF PassEnds
           THEN \/ IsPrefix(P, Q) /\ Len(Q) <= purgeThreshold
                \/ \E k \in 0..topLimit :
                      /\ Len(P) + k > purgeThreshold
                      /\ Len(Q) = purgeThreshold \div 2 + (Len(P) + k - purgeThreshold)
                      /\ \A i \in 1..(Len(P) - purgeCount) : Q[i] = P[i + purgeCount]
           ELSE IsPrefix(P, Q)]_vars

\* processedTokens after a clean-up: the first 500 addresses are gone, the
\* addresses that came in last are at its end
C18_AfterPurge ==
    /\ Len(processedTokens) > purgeCount
    /\ Len(processedTokens) <= purgeCount + topLimit
    /\ processedTokens[1] = purgeCount + 1
    /\ processedTokens[Len(processedTokens)] = purgeThreshold + topLimit


\* startRaydiumMonitoring has failed at its start: the scanner object is
\* there and nothing is subscribed
StartFailed(s) == s = "raydium" /\ scanners[s].gen > 0 /\ logSubscriptions = 0
\* the source s is scanning: its interval is set, or its first scan is in
\* flight and sets the interval when it returns
Scanning(s) ==
    \/ scanners[s].interval
    \/ ScanFrame(s, "start", scanners[s].gen) \in FramesAt("fetch")

\* C19: while the scanner is started, the aggregation interval is set and
\* every enabled source whose own start did not fail is scanning, whatever
\* start or request of any source has failed.
C19_FailureStaysInItsSource ==
    isScanning =>
        /\ scanTimer
        /\ \A s \in {"raydium", "dexscreener"} : StartFailed(s) \/ Scanning(s)

\* Raydium failed at its start; DexScreener has scanned and found a token
\* and goes on scanning, and the aggregation interval is set
C19_OthersStartedAfterFailure ==
    /\ isScanning
    /\ StartFailed("raydium")
    /\ scanners["dexscreener"].interval
    /\ scanners["dexscreener"].tokens # << >>
    /\ scanTimer


\* C20: no scanTokens() of the PumpFunScanner ends in a rejection, whatever
\* its request to the upstream brought back.
C20_ScanNeverRejects ==
    \A i \in 1..Len(calls.log) : calls.log[i].result # "rejects"


\* C21: after a scan has taken in a batch, every well-formed record of the
\* batch whose address was not processed before is in the tokens Map of its
\* source, whatever other records the batch holds.
C21_WellFormedRecordsIngested ==
    [][\A f \in FramesAt("fetch") : \A batch \in Batches :
          IngestReturn(f, batch) =>
             \A i \in 1..Len(batch) :
                (batch[i].shape = "ok" /\ ~SetHas(processedTokens, batch[i].address))
                   => MapHas(scanners'[f.source].tokens, batch[i].address)]_vars

\* C22: no token without an address is in a scanner's tokens Map, has been
\* emitted, waits in an aggregation pass or is in the tokens table.
C22_NoCandidateWithoutAddress ==
    /\ \A s \in SourceSet : ~MapHas(scanners[s].tokens, NoAddress)
    /\ \A e \in emitted : e.address # NoAddress
    /\ \A f \in FramesAt("store") : \A i \in 1..Len(f.queue) : f.queue[i].address # NoAddress
    /\ \A i \in 1..Len(tokens) : tokens[i].address # NoAddress


\* the calls of analyzeAndStoreToken so far
Scored == {calls.log[i] : i \in 1..Len(calls.log)}

\* C23: two calls of analyzeAndStoreToken for the same token compute the
\* same scores.
C23_SameTokenSameScores ==
    \A e \in Scored : \A d \in Scored :
        e.token = d.token => e.result = d.result

\* the sources the enhanced scanner scores as trusted ones
TrustedSources == {"raydium", "pumpfun", "moonshot"}

\* the calls of the enhanced scanner for a token of the scenario: liquidity
\* 60000, volume 120000, price change 120, created 2 minutes before the
\* call, from a trusted source
ScenarioCalls ==
    {e \in Scored :
        /\ calls.api = "enhanced"
        /\ e.token.source \in TrustedSources
        /\ e.token.liquidity = 60000
        /\ e.token.volume24h = 120000
        /\ e.token.priceChange24h = 120
        /\ e.t - e.token.createdAt = Minutes(2)}

\* the lowest acceptance threshold, tenfold as overallScore is
LowestThreshold == 10 * 20

\* C24 as stated: the scenario token gets liquidityScore 100, momentumScore
\* 100, ageScore 100 plus the bonus of its source and volumeScore 100, and
\* its overallScore is above the lowest threshold.
C24_ScenarioAsStated ==
    \A e \in ScenarioCalls :
        /\ e.result.liquidityScore = 100
        /\ e.result.momentumScore = 100
        /\ e.result.ageScore = 100 + sourceBonus(e.token.source)
        /\ e.result.volumeScore = 100
        /\ e.result.overallScore > LowestThreshold

\* C24, amended: the scenario token gets liquidityScore 100, momentumScore
\* 100, ageScore 100 plus the bonus of its source and volumeScore 60 (its
\* ratio of volume to liquidity is 2, which is not above 2), and its
\* overallScore, 90 or more, is above the lowest threshold.
C24_Scenario ==
    \A e \in ScenarioCalls :
        /\ e.result.liquidityScore = 100
        /\ e.result.momentumScore = 100
        /\ e.result.ageScore = 100 + sourceBonus(e.token.source)
        /\ e.result.volumeScore = 60
        /\ e.result.overallScore >= 900
        /\ e.result.overallScore > LowestThreshold

C24_ScenarioScored == \E e \in ScenarioCalls : e.stored

\* C25: a token is stored exactly when its overallScore is above the
\* threshold and its riskScore below the ceiling, and for a token of a
\* trusted source the threshold is lower and the ceiling higher than for a
\* token of another source.
C25_GateRelaxedForTrusted ==
    /\ \A e \in Scored :
          e.stored <=> (e.result.overallScore > e.result.threshold
                          /\ e.result.riskScore < e.result.ceiling)
    /\ \A e \in Scored : \A d \in Scored :
          (e.token.source \in TrustedSources /\ d.token.source \notin TrustedSources)
             => /\ e.result.threshold < d.result.threshold
                /\ e.result.ceiling > d.result.ceiling

\* C26: every sub-score computed for a token (liquidityScore, momentumScore,
\* ageScore, volumeScore) lies between 0 and 100.
C26_SubScoresInRange ==
    \A e \in Scored :
        /\ e.result.liquidityScore \in 0..100
        /\ e.result.momentumScore \in 0..100
        /\ e.result.ageScore \in 0..100
        /\ e.result.volumeScore \in 0..100

\* C27: of two tokens scored at the same instant that differ only in their
\* source, the one of a trusted source never has the higher riskScore.
C27_TrustedNeverRiskier ==
    \A e \in Scored : \A d \in Scored :
        (/\ e.t = d.t
         /\ [e.token EXCEPT !.source = d.token.source] = d.token
         /\ e.token.source \in TrustedSources
         /\ d.token.source \notin TrustedSources)
            => e.result.riskScore <= d.result.riskScore

\* the recorded entries
Buys == {i \in 1..Len(trades) : trades[i].side = "buy"}

\* C28 as stated: the size of every entry is maxPositionSize x (0.5 + 0.5 x
\* confidence) for a confidence between 0 and 1 that derives from the
\* token's score, so that two entries of one token whose stored scores are
\* the same have the same size; no size exceeds maxPositionSize.
C28_SizeFromScore ==
    /\ \A i \in Buys :
          /\ trades[i].sol_amount <= maxPositionSize
          /\ \E c \in 0..100 :
                200 * trades[i].sol_amount = maxPositionSize * (100 + c)
    /\ \A i \in Buys : \A j \in Buys :
          trades[i].tokenAddress = trades[j].tokenAddress
             => trades[i].sol_amount = trades[j].sol_amount

\* the factors of analyzeOpportunity the token passes, for the answer of
\* checkMomentum and the positions open when it has returned
Passed(token, momentum) ==
    Count(token.social_score > 15) + Count(token.risk_score < 60)
      + Count(token.liquidity >= minLiquidity) + Count(momentum)
      + Count(Len(paperPositions) < maxPositions)

\* C28, amended: the size of every entry is maxPositionSize x (0.5 + 0.5 x
\* confidence), where confidence is the share of the five entry factors the
\* token passes (its social score, its risk score, its liquidity, its
\* momentum, the number of open positions); an entry needs four of them, so
\* its size is nine tenths or the whole of maxPositionSize and never more.
C28_SizeFromFactors ==
    [][/\ \A p \in Procs, m \in BOOLEAN :
             MomentumReturn(p, m) /\ frames'[p].pc = "buy_price"
                => LET passed == Passed(Head(frames[p].opps), m)
                   IN  /\ passed >= 4
                       /\ 10 * frames'[p].size = maxPositionSize * (5 + passed)
       /\ \A p \in Procs, c \in PriceResults, s \in BOOLEAN :
             BuyPriceReturn(p, c, s) /\ Recorded
                => /\ NewRow.side = "buy"
                   /\ NewRow.sol_amount = frames[p].size
                   /\ NewRow.sol_amount <= maxPositionSize
                   /\ 10 * NewRow.sol_amount \in {9 * maxPositionSize, 10 * maxPositionSize}
                   /\ paperPositions'[IndexOf(paperPositions', frames[p].addr)].entrySize
                         = NewRow.sol_amount]_vars

\* one token has been entered at nine tenths and at the whole of
\* maxPositionSize
C28_TwoSizes ==
    \E i \in Buys : \E j \in Buys :
        /\ trades[i].tokenAddress = trades[j].tokenAddress
        /\ 10 * trades[i].sol_amount = 9 * maxPositionSize
        /\ trades[j].sol_amount = maxPositionSize

\* C29: over any sequence of checks the reset timestamp of a source's window
\* never decreases; it moves, to one window past the current time, and the
\* counter starts again only in a check made after the stored reset
\* timestamp has passed; in every other step the counter stays or grows by
\* one.
C29_ResetMonotonic ==
    [][\A s \in SourceSet :
          LET old == rateLimits[s]
              new == rateLimits'[s]
          IN  /\ new.reset >= old.reset
              /\ new.reset # old.reset =>
                    /\ now > old.reset
                    /\ new.reset = now + rateLimitWindow
                    /\ new.current \in {0, 1}
              /\ new.reset = old.reset =>
                    new.current \in {old.current, old.current + 1}
              /\ new.current < old.current => now > old.reset]_vars

\* calls were counted in the first window, and a check after its end has
\* begun a new window with the counter started again
C29_WindowRenewed ==
    /\ Len(calls.log) >= 3
    /\ calls.log[2].t < rateLimitWindow
    /\ rateLimits["bitquery"].reset = 120000 + rateLimitWindow
    /\ rateLimits["bitquery"].current = 1

\* C30: of a burst of requests no larger than the limit of 60, put to the
\* reddit limiter, every request is let through and run: none is refused
\* and none ends in an exception.
C30_BurstExecuted ==
    Len(calls.log) <= redditCalls =>
        \A i \in 1..Len(calls.log) : calls.log[i].result = "true"

\* C31: the daily-loss guard stops a timer callback from taking up new
\* entries only when the day's realized P&L is a loss of more than
\* maxDailyLoss of the balance: on any other day, a day of net profit among
\* them, the callback goes on to analyse the first viable token that has no
\* position.
C31_OnlyLossBlocksEntries ==
    [][\A p \in Procs :
          (/\ TimerFire(p)
           /\ ~LossLimitBreached
           /\ SkipHeld(getViableTokens(tokens, viableLimit), paperPositions) # << >>)
              => frames'[p].pc = "momentum"]_vars

\* C32: the Trade recorded when a position closes carries the price the
\* exit rule was decided on: the price of the sell row, of its exit value
\* and of its profit_loss is the price the monitoring step observed.
C32_SoldAtObservedPrice ==
    [][\A p \in Procs, c \in Prices, s \in BOOLEAN :
          SellPriceReturn(p, c, s) /\ Sold(frames[p].addr)
             => /\ NewRow.price = frames[p].currentPrice
                /\ NewRow.sol_amount = NewRow.amount * frames[p].currentPrice]_vars

\* C33: the paper balance is never negative, and a step records a buy only
\* when the balance it debits covers the entry size; the debit is the size.
C33_BalanceNeverNegative ==
    [][/\ paperBalance >= 0 /\ paperBalance' >= 0
       /\ \A a \in Addresses :
             Bought(a) => /\ paperBalance >= NewRow.sol_amount
                          /\ paperBalance' = paperBalance - NewRow.sol_amount]_vars

\* an entry is awaiting its price while the balance, debited by an earlier
\* entry, no longer covers its size
C33_SecondEntryUncovered ==
    \E p \in Procs :
        /\ frames[p].pc = "buy_price"
        /\ paperBalance < frames[p].size
        /\ paperBalance > 0
        /\ BuyCount >= 1

\* C34: whatever the sequence of start and stop calls, the engine has at
\* most one live interval, and none while isTrading is false.
C34_OneTimerNoneWhenStopped ==
    /\ liveTimers <= 1
    /\ ~isTrading => liveTimers = 0

----------------------------------------------------------------------------
(* The WebSocket PumpFunScanner of multi_source_token_scanner.js.           *)
(* scanners["pumpfun"] is this.scanners.pumpfun; scanFrames holds the sockets   *)
(* whose events are still to come and the reconnect timers that are set;    *)
(* calls.log holds the delays of the reconnects scheduled since the last    *)
(* 'open' event.                                                            *)

\* calls of new WebSocket() in a run
MaxConnects == 12

\* this.maxReconnectAttempts
maxReconnectAttempts == 10

\* the state the constructor leaves: this.ws is null when no socket is current
SocketScanner == [isRunning |-> FALSE, reconnectAttempts |-> 0, connections |-> 0]

\* a WebSocket object that has events to come; current: this.ws names it
Socket(state, current) == [pc |-> "socket", state |-> state, current |-> current]
\* a setTimeout(() => this.connect(), delay) that has not fired
ReconnectTimer(delay) == [pc |-> "reconnect", delay |-> delay]

\* Math.min(1000 * Math.pow(2, attempts), 30000)
reconnectDelay(attempts) ==
    IF 1000 * 2^attempts < 30000 THEN 1000 * 2^attempts ELSE 30000

\* this.ws = ...: the frames once this.ws names no socket any more
Released(F) ==
    LET G == [f \in DOMAIN F |-> IF f.pc = "socket" THEN [f EXCEPT !.current = FALSE] ELSE f]
    IN  [g \in {G[f] : f \in DOMAIN F} |->
            BagCardinality([f \in {h \in DOMAIN F : G[h] = g} |-> F[f]])]

\* connect(): a new socket is created and this.ws names it
connect(F) == Released(F) (+) SetToBag({Socket("connecting", TRUE)})

SocketsAt(states) == {f \in FramesAt("socket") : f.state \in states}
ConnectsBelow(N) == scanners["pumpfun"].connections < N

socketUnchanged ==
    /\ UNCHANGED << isScanning, scanTimer, processedTokens, rateLimits, emitted,
                    logSubscriptions, requests, tokens, now >>
    /\ UNCHANGED engineVars

\* start()
SocketStart ==
    /\ ~scanners["pumpfun"].isRunning
    /\ scanners' = [scanners EXCEPT !["pumpfun"].isRunning = TRUE,
                                    !["pumpfun"].connections = @ + 1]
    /\ scanFrames' = connect(scanFrames)
    /\ UNCHANGED calls
    /\ socketUnchanged

\* the 'open' event of socket s: the counter is reset and the two
\* subscriptions are sent on this.ws, which changes no field of the scanner
\* (and throws, after the reset, when this.ws is null or not open yet)
SocketOpen(s) ==
    /\ s \in SocketsAt({"connecting"})
    /\ scanners' = [scanners EXCEPT !["pumpfun"].reconnectAttempts = 0]
    /\ scanFrames' = ReplaceFrame(s, {Socket("open", s.current)})
    /\ calls' = [calls EXCEPT !.log = << >>]
    /\ socketUnchanged

\* the 'close' event of socket s: its connection failed, was lost, or was
\* closed by stop()
SocketClose(s) ==
    LET sc == scanners["pumpfun"]
        again == sc.isRunning /\ sc.reconnectAttempts < maxReconnectAttempts
        delay == reconnectDelay(sc.reconnectAttempts + 1)
    IN  /\ s \in SocketsAt({"connecting", "open", "closing"})
        /\ scanners' = [scanners EXCEPT !["pumpfun"].reconnectAttempts =
                                           IF again THEN @ + 1 ELSE @]
        /\ scanFrames' = ReplaceFrame(s, IF again THEN {ReconnectTimer(delay)} ELSE {})
        /\ calls' = [calls EXCEPT !.log = IF again
                                          THEN Append(@, [t |-> now, result |-> delay])
                                          ELSE @]
        /\ socketUnchanged

\* a reconnect timer fires: connect()
ReconnectFire(f) ==
    /\ f \in FramesAt("reconnect")
    /\ scanners' = [scanners EXCEPT !["pumpfun"].connections = @ + 1]
    /\ scanFrames' = connect(scanFrames (-) SetToBag({f}))
    /\ UNCHANGED calls
    /\ socketUnchanged

\* stop(): this.ws.close() starts the closing of the socket this.ws names,
\* whose 'close' event comes later, and this.ws is null
SocketStop ==
    LET closing == [f \in DOMAIN scanFrames |->
                       IF f.pc = "socket" /\ f.current
                       THEN [f EXCEPT !.state = "closing"] ELSE f]
        F == [g \in {closing[f] : f \in DOMAIN scanFrames} |->
                 BagCardinality([f \in {h \in DOMAIN scanFrames : closing[h] = g}
                                    |-> scanFrames[f]])]
    IN  /\ scanners["pumpfun"].isRunning
        /\ scanners' = [scanners EXCEPT !["pumpfun"].isRunning = FALSE]
        /\ scanFrames' = Released(F)
        /\ UNCHANGED calls
        /\ socketUnchanged

InitSocket ==
    /\ Constructed(initialPaperBalance, << >>)
    /\ isScanning = FALSE
    /\ scanTimer = FALSE
    /\ scanners = [s \in {"pumpfun"} |-> SocketScanner]
    /\ processedTokens = << >>
    /\ rateLimits = [s \in SourceSet |-> [current |-> 0, reset |-> now + rateLimitWindow]]
    /\ emitted = {}
    /\ scanFrames = EmptyBag
    /\ logSubscriptions = 0
    /\ requests = << >>
    /\ calls = NoCalls("pumpfun")

NextSocket ==
    \/ ConnectsBelow(MaxConnects) /\ SocketStart
    \/ \E s \in SocketsAt({"connecting"}) : SocketOpen(s)
    \/ \E s \in FramesAt("socket") : SocketClose(s)
    \/ \E f \in FramesAt("reconnect") : ConnectsBelow(MaxConnects) /\ ReconnectFire(f)
    \/ SocketStop

SpecSocket == InitSocket /\ [][NextSocket]_vars

\* C35: once stop() has been called, no connection is opened until start() is
\* called again: every step that creates a WebSocket leaves isRunning true,
\* also the step of a reconnect timer that was set before stop().
C35_NoConnectAfterStop ==
    [][scanners'["pumpfun"].connections > scanners["pumpfun"].connections
         => scanners'["pumpfun"].isRunning]_vars

\* the reconnect timers that are set
PendingReconnects ==
    BagCardinality([f \in FramesAt("reconnect") |-> CopiesIn(f, scanFrames)])

\* C39: while the scanner runs, at most maxReconnectAttempts reconnects are
\* scheduled in a row with no 'open' event in between, the i-th of them after
\* min(1000 * 2^i, 30000) ms; an 'open' event resets the counter to zero, and
\* the 'close' event of a connection that was open is followed by a reconnect.
C39_ReconnectPolicy ==
    [][/\ Len(calls.log) <= maxReconnectAttempts
       /\ \A i \in 1..Len(calls.log) :
              calls.log[i].result = IF 1000 * 2^i < 30000 THEN 1000 * 2^i ELSE 30000
       /\ \A s \in SocketsAt({"connecting"}) :
              SocketOpen(s) => scanners'["pumpfun"].reconnectAttempts = 0
       /\ \A s \in SocketsAt({"open"}) :
              SocketClose(s) /\ scanners["pumpfun"].isRunning
                  => PendingReconnects' = PendingReconnects + 1]_vars

\* aggregations in flight at once: the interval fires again while the
\* callback before it awaits an analysis
OverlapFrames == 2

NextOverlap == Scanner({"raydium", "dexscreener"}, MaxChecks, OverlapFrames)

SpecOverlap == InitScanner /\ [][NextOverlap]_vars

\* C36: whatever the interleaving of aggregation ticks, no token is analyzed
\* and stored while its address is in processedTokens: between two analyses
\* of an address lies its eviction from the Set.
C36_AnalyzedOncePerAddress ==
    [][\A f \in FramesAt("store") :
          StoreReturn(f) => ~SetHas(processedTokens, Head(f.queue).address)]_vars

----------------------------------------------------------------------------
(* The aggregation loop once the sources have gone silent: the tokens Map   *)
(* of the DexScreener scanner holds the addresses 1..n and nothing is       *)
(* reported any more.                                                       *)

\* the sizes of the tokens Map: below and above the clean-up threshold
QuiesceSizes == {45, 1001}

InitQuiesce ==
    /\ Constructed(initialPaperBalance, << >>)
    /\ isScanning = TRUE
    /\ scanTimer = TRUE
    /\ \E n \in QuiesceSizes :
          /\ scanners = [s \in SourceSet |->
                            IF s = "dexscreener"
                            THEN [Running EXCEPT !.tokens = [a \in 1..n |-> Reported("dexscreener", a)]]
                            ELSE NoScanner]
          /\ processedTokens = Known(IF n > purgeThreshold THEN purgeThreshold ELSE 0)
    /\ rateLimits = [s \in SourceSet |-> [current |-> 0, reset |-> now + rateLimitWindow]]
    /\ emitted = {}
    /\ scanFrames = EmptyBag
    /\ logSubscriptions = 0
    /\ requests = << >>
    /\ calls = NoCalls("bitquery")

AggregateTick == FramesBelow(MaxFrames, "store") /\ AggregateFire
StoreDone == \E f \in FramesAt("store") : StoreReturn(f)

NextQuiesce ==
    \/ AggregateTick
    \/ StoreDone

\* the interval goes on firing and every db.addToken returns
SpecQuiesce ==
    InitQuiesce /\ [][NextQuiesce]_vars /\ WF_vars(AggregateTick) /\ WF_vars(StoreDone)

\* no aggregation is in flight and no token of a scanner awaits its analysis
Quiescent ==
    /\ scanFrames = EmptyBag
    /\ Collect(Sources, scanners, processedTokens) = << >>

\* C37: with the sources silent, the aggregation loop comes to rest: from
\* some cycle on every collected token has been analyzed and no cycle
\* analyzes a token, also when the scanners hold more than 1000 addresses.
C37_EventuallyQuiescent == <>[]Quiescent

\* handleNewToken has started to enrich and analyze a token of address a in
\* this step
Handling(a) ==
    \E f \in BagToSet(scanFrames') :
        /\ f.pc = "handle"
        /\ f.queue[1].address = a
        /\ CopiesIn(f, scanFrames') > CopiesIn(f, scanFrames)

\* C38: whatever the order in which the scanners' token events arrive, an
\* address is enriched and analyzed at most once: the step that starts the
\* handling of an address finds it outside processedTokens and leaves it
\* inside, with no await in between, and no address ever leaves the Set.
C38_HandledOncePerAddress ==
    [][/\ IsPrefix(processedTokens, processedTokens')
       /\ \A a \in CreationAddresses :
             Handling(a) => /\ ~SetHas(processedTokens, a)
                            /\ SetHas(processedTokens', a)]_vars

\* the second report of an address has come while the first was in flight,
\* and was dropped
C38_SecondReportDropped ==
    \E a \in CreationAddresses :
        /\ Cardinality(tokensByAddress(a)) > 1
        /\ Cardinality(InFlightFor(a)) = 1
        /\ BagCardinality(scanFrames) = 1

====
